---------------------------- MODULE Spec2Model ----------------------------
(***************************************************************************)
(* Model of the medical-bill adjudication pipeline.                        *)
(*                                                                         *)
(*   SpecInvoker        : lambda1.py  _bedrock_invoke (retry / backoff)    *)
(*   SpecValidation     : lambda2.py  lambda_handler (validation stage)    *)
(*   SpecIngestion      : lambda1.py  lambda_handler (ingestion)           *)
(*   SpecReconciliation : lambda3/index.py  handler (direct invocation)    *)
(*   SpecRetrieval      : lambda4.py  lambda_handler (result retrieval)    *)
(*   SpecPipeline       : lambda0.py upload, then the three stages chained *)
(*   SpecUpload         : lambda0.py  lambda_handler (upload interface)    *)
(*   SpecRedelivery     : lambda3/index.py  handler, an event delivered    *)
(*                        twice                                            *)
(*   SpecItemisedBill   : lambda1.py  lambda_handler, documents with more  *)
(*                        line items than one write request holds          *)
(*   SpecCoercion       : lambda1.py  _to_number                           *)
(*   SpecSanitization   : lambda1.py  _clean_for_ddb, _put_safe            *)
(*   SpecUploadsAndIngestion : lambda0.py uploads while lambda1.py works   *)
(*                        through earlier notifications                    *)
(*                                                                         *)
(* Each specification drives its own groups of variables and leaves the    *)
(* other groups at their idle values.                                      *)
(***************************************************************************)
EXTENDS Integers, Sequences, FiniteSets, TLC

VARIABLES
    \* ---- lambda2.py lambda_handler (validation stage) ----
    v_pc,                    \* position of the handler
    event_table_id,          \* event.get("table_id")
    icd_entries,             \* get_icd_entries_for_table_id(table_id)
    med_bill_rows,           \* get_cpt_codes_for_table_id(table_id)
    icd_reference,           \* codes present in icd_10_reference_table
    cpt_reference,           \* codes present in reference_table
    all_valid,
    issues,
    cpt_icd_issue,
    cpt_codes,
    icd_for_justification,
    icd_items_for_validation,
    icd_reply,               \* what the model answered to the ICD batch prompt
    icd_results,             \* results of the ICD batch_compare_with_bedrock
    cpt_items_for_validation,
    cpt_reply,               \* what the model answered to the CPT batch prompt
    cpt_results,             \* results of the CPT batch_compare_with_bedrock
    justified,               \* first component of check_cpt_justification_with_bedrock
    bedrock_calls,           \* log of bedrock.invoke_model calls: [site, outcome, text]
    handoffs,                \* payloads given to lambda_client.invoke
    returned,                \* return value of lambda_handler
    \* ---- lambda1.py _bedrock_invoke (retrying invoker) ----
    i_pc,                    \* "idle", "loop", "returned", "raised"
    attempt,                 \* loop variable of `for attempt in range(1, MAX_RETRIES + 1)`
    last_err,
    invoke_calls,            \* class of each bedrock_rt.invoke_model outcome, in order
    last_outcome,            \* what the most recent bedrock_rt.invoke_model call did
    sleeps,                  \* time.sleep calls: [attempt, jitter, delay]
    raised,                  \* what _bedrock_invoke raised
    \* ---- lambda2.py: the rest of the event ----
    event_job_id,            \* event.get("job_id"), kept by dict(previous_event)
    \* ---- shared services ----
    source_bucket,           \* upload bucket: set of [key, job_id] objects
    ddb,                     \* the five DynamoDB tables: set of rows
    result_store,            \* parsed/comparisons/ objects written by lambda3
    \* ---- lambda1.py lambda_handler (ingestion coordinator) ----
    c_pc,                    \* position of the handler
    records,                 \* event["Records"]: the object key of each record
    idx,                     \* loop variable of `for idx, rec in enumerate(records, start=1)`
    table_id,
    job_id,
    parsed_any_page,
    page_results,
    data,                    \* what _invoke_full_extraction returned
    results,
    minted,                  \* number of table ids taken from uuid.uuid4()
    placeholders,            \* number of NO_CODE_ ids taken from uuid.uuid4()
    cooldowns,               \* number of time.sleep(EXTRA_COOLDOWN_ON_FAIL_SECS) calls
    chain_queue,             \* payloads lambda_client.invoke accepted for the next stage
    clog,                    \* external calls of the handler, in order: [idx, step, ok]
    \* ---- lambda3/index.py handler (reconciliation, direct invocation) ----
    r_pc,                    \* position of the handler
    r_event,                 \* the event: table_id, job_id, validation
    paging,                  \* how the scans of the tables split into pages
    bill_data,               \* _build_bill_data_from_dynamodb(table_id)
    comparison_key,
    comparison_ids,          \* number of comparison ids taken from uuid.uuid4()
    r_calls,                 \* bedrock_rt.invoke_model calls, by outcome
    r_reads,                 \* bill and policy data read, in order
    r_log,                   \* result writes and table purges, in order
    r_returned,              \* what the handler returned or raised
    r_faults,                \* calls of the handler that the service refused
    r_text,                  \* kind of text the comparison model returned last
    \* ---- lambda4.py lambda_handler (result retrieval) ----
    q_req,                   \* per request: position, jobId, listing, matched key, response
    q_hist,                  \* result writes, request starts and responses, in order
    \* ---- lambda0.py lambda_handler (upload) and the invocations between stages ----
    u_log,                   \* uploads answered: file name, job id, status
    s3_events,               \* object-created notifications not yet handled
    delivered,               \* invocations of lambda_client.invoke run by validation
    reconciled,              \* invocations of lambda_client.invoke run by reconciliation
    \* ---- lambda1.py: the normalisation helpers, called on their own ----
    fn_pc,                   \* "idle", "called", "returned", "again"
    fn_arg,                  \* the argument of the call
    fn_res                   \* what the call returned

vvars == << v_pc, event_table_id, icd_entries, med_bill_rows, icd_reference,
            cpt_reference, all_valid, issues, cpt_icd_issue, cpt_codes,
            icd_for_justification, icd_items_for_validation, icd_reply,
            icd_results, cpt_items_for_validation, cpt_reply, cpt_results,
            justified, bedrock_calls, handoffs, returned, event_job_id >>

ivars == << i_pc, attempt, last_err, invoke_calls, last_outcome, sleeps, raised >>

svars == << source_bucket, ddb, result_store >>

cvars == << c_pc, records, idx, table_id, job_id, parsed_any_page, page_results,
            data, results, minted, placeholders, cooldowns, chain_queue, clog >>

rvars == << r_pc, r_event, paging, bill_data, comparison_key, comparison_ids,
            r_calls, r_reads, r_log, r_returned, r_faults, r_text >>

qvars == << q_req, q_hist >>

pvars == << u_log, s3_events, delivered, reconciled >>

fvars == << fn_pc, fn_arg, fn_res >>

\* everything but the validation stage and the invoker
xvars == << svars, cvars, rvars, qvars, pvars, fvars >>

\* what the ingestion handler, and what the reconciliation handler, cannot touch
cframe == << vvars, ivars, rvars, qvars, pvars, fvars >>
rframe == << vvars, ivars, cvars, qvars, pvars, fvars >>
qframe == << vvars, ivars, cvars, rvars, pvars, fvars >>

vars == << vvars, ivars, xvars >>

None == "None"

\* no upload, no row and no result exists
IdleServices ==
    /\ source_bucket = {}
    /\ ddb = {}
    /\ result_store = {}

\* the ingestion handler is not invoked
IdleCoordinator ==
    /\ c_pc = "idle"
    /\ records = << >>
    /\ idx = 0
    /\ table_id = None
    /\ job_id = None
    /\ parsed_any_page = FALSE
    /\ page_results = << >>
    /\ data = << >>
    /\ results = << >>
    /\ minted = 0
    /\ placeholders = 0
    /\ cooldowns = 0
    /\ chain_queue = << >>
    /\ clog = << >>

\* the reconciliation handler is not invoked
IdleReconciliation ==
    /\ r_pc = "idle"
    /\ r_event = << >>
    /\ paging = << >>
    /\ bill_data = << >>
    /\ comparison_key = 0
    /\ comparison_ids = 0
    /\ r_calls = << >>
    /\ r_reads = << >>
    /\ r_log = << >>
    /\ r_returned = "running"
    /\ r_faults = << >>
    /\ r_text = "none"

\* no retrieval request was made
IdleRetrieval ==
    /\ q_req = << >>
    /\ q_hist = << >>

\* nothing was uploaded and no stage was invoked
IdlePipeline ==
    /\ u_log = << >>
    /\ s3_events = << >>
    /\ delivered = 0
    /\ reconciled = 0

\* no normalisation helper is called on its own
IdleHelpers ==
    /\ fn_pc = "idle"
    /\ fn_arg = << >>
    /\ fn_res = << >>

IdleOthers ==
    /\ IdleHelpers
    /\ IdleServices
    /\ IdleCoordinator
    /\ IdleReconciliation
    /\ IdleRetrieval
    /\ IdlePipeline

Min(a, b) == IF a <= b THEN a ELSE b

-----------------------------------------------------------------------------
(***************************************************************************)
(* Bounds of the model.                                                    *)
(***************************************************************************)
\* codes are 1..MaxCodes; a scan returns at most one row per (code, table_id)
MaxCodes == 2

Codes == 1 .. MaxCodes

-----------------------------------------------------------------------------
(***************************************************************************)
(* Text handling: Python strings are sequences of characters.              *)
(***************************************************************************)
Upper(c) ==
    CASE c = "y" -> "Y" [] c = "e" -> "E" [] c = "s" -> "S" [] c = "n" -> "N"
      [] c = "o" -> "O" [] c = "k" -> "K" [] c = "m" -> "M" [] c = "a" -> "A"
      [] c = "b" -> "B" [] OTHER -> c

\* s.upper().startswith(prefix), prefix given in upper case
UpperStartsWith(s, prefix) ==
    /\ Len(s) >= Len(prefix)
    /\ \A i \in 1 .. Len(prefix) : Upper(s[i]) = prefix[i]

\* elements the model may put in its answer list
Tokens == { <<"Y", "E", "S">>, <<"n", "o">>, <<"m", "a", "y", "b", "e">> }

\* texts the model may answer to the justification prompt
JustificationTexts ==
    { <<"o", "k", ".">>, <<"I", "S", "S", "U", "E", ":", "x">>, << >> }

-----------------------------------------------------------------------------
(***************************************************************************)
(* lambda1.py: the retrying invoker, _bedrock_invoke                       *)
(***************************************************************************)
\* lambda1.py:69-71, delays in milliseconds
RETRY_SLEEP_BASE == 800
RETRY_JITTER_MAX == 600
MAX_RETRIES == 8

\* random.random() is drawn from { r / JitterSteps : r \in 0 .. JitterSteps - 1 }
JitterSteps == 2

Exception(type, code, msg, status) ==
    [type |-> type, code |-> code, msg |-> msg, status |-> status]

\* last_err = None
NoError == Exception("None", "", "", 0)

\* the successful response of bedrock_rt.invoke_model
Response == Exception("Response", "", "", 0)

\* what bedrock_rt.invoke_model and json.loads can raise; status 0 stands for
\* a response without HTTPStatusCode
NetworkErrors ==
    { Exception("Network", n, "", 0) :
        n \in {"EndpointConnectionError", "ReadTimeoutError"} }

ClientErrors ==
    { Exception("ClientError", "ThrottlingException", "", 400),
      Exception("ClientError", "ValidationException", "Too Many Requests", 400),
      Exception("ClientError", "ModelErrorException", "", 503),
      Exception("ClientError", "ModelErrorException", "", 429),
      Exception("ClientError", "AccessDeniedException", "", 403),
      Exception("ClientError", "ValidationException", "", 400),
      Exception("ClientError", "", "", 0) }

OtherErrors == { Exception("Other", "JSONDecodeError", "", 0) }

\* str.lower() on the error codes and messages above
Lower(str) ==
    CASE str = "ThrottlingException" -> "throttlingexception"
      [] str = "ValidationException" -> "validationexception"
      [] str = "ModelErrorException" -> "modelerrorexception"
      [] str = "AccessDeniedException" -> "accessdeniedexception"
      [] str = "Too Many Requests" -> "too many requests"
      [] OTHER -> str

\* lines 290-298
retryable_codes ==
    { "throttlingexception", "toomanyrequestsexception",
      "serviceunavailableexception", "internalfailure", "internalservererror",
      "requesttimeout", "limitexceededexception" }

\* lines 282-310
_is_retryable_client_error(e) ==
    \/ Lower(e.code) \in retryable_codes
    \/ Lower(e.msg) = "too many requests"
    \/ e.status # 0 /\ (e.status = 429 \/ (500 <= e.status /\ e.status < 600))

\* faulty variant of BackoffBase: the exponent is the attempt number
BackoffBaseEager(n) == RETRY_SLEEP_BASE * (2 ^ n)

\* line 318, the deterministic part of the delay
BackoffBase(n) == RETRY_SLEEP_BASE * (2 ^ (n - 1))

\* lines 318-320: random.uniform(0, b) is 0 + (b - 0) * random.random()
Jitter(r) == (RETRY_JITTER_MAX * r) \div JitterSteps

\* lines 313-321: the time.sleep call of _sleep_with_backoff(n)
Sleep(n, r) == [attempt |-> n, jitter |-> Jitter(r), delay |-> BackoffBase(n) + Jitter(r)]

\* faulty variant of Handling: an unclassified exception is propagated
HandlingStrict(e) ==
    IF e.type = "Network" THEN "retry"
    ELSE IF e.type = "ClientError" /\ _is_retryable_client_error(e) THEN "retry"
    ELSE "raise"

\* faulty variant of Handling: every service error is retried
HandlingLenient(e) == "retry"

\* lines 337-369: which except clause handles e, and what it does
Handling(e) ==
    IF e.type = "Network" THEN "retry"
    ELSE IF e.type = "ClientError"
         THEN IF _is_retryable_client_error(e) THEN "retry" ELSE "raise"
         ELSE "retry"

\* faulty variant of LastAttempt: the loop runs once more
LastAttemptLate(n) == n = MAX_RETRIES + 1

\* line 333: range(1, MAX_RETRIES + 1) ends after attempt MAX_RETRIES
LastAttempt(n) == n = MAX_RETRIES

\* the class of an outcome, for the log of calls
OutcomeClass(e) ==
    IF e.type = "Response" THEN "ok"
    ELSE IF e.type = "ClientError" /\ ~_is_retryable_client_error(e) THEN "fatal"
    ELSE "transient"

NotRaised == [kind |-> "none", cause |-> NoError]

IdleValidation ==
    /\ v_pc = "idle"
    /\ event_table_id = None
    /\ icd_entries = << >>
    /\ med_bill_rows = << >>
    /\ icd_reference = {}
    /\ cpt_reference = {}
    /\ all_valid = TRUE
    /\ issues = << >>
    /\ cpt_icd_issue = << None >>
    /\ cpt_codes = << >>
    /\ icd_for_justification = << >>
    /\ icd_items_for_validation = << >>
    /\ icd_reply = << >>
    /\ icd_results = << >>
    /\ cpt_items_for_validation = << >>
    /\ cpt_reply = << >>
    /\ cpt_results = << >>
    /\ justified = "not_called"
    /\ bedrock_calls = << >>
    /\ handoffs = << >>
    /\ returned = "running"
    /\ event_job_id = None

InvokerInit ==
    /\ i_pc = "loop"
    /\ attempt = 1
    /\ last_err = NoError
    /\ invoke_calls = << >>
    /\ last_outcome = NoError
    /\ sleeps = << >>
    /\ raised = NotRaised
    /\ IdleValidation
    /\ IdleOthers

\* lines 335-336: the call succeeds and the response body is returned
InvokeReturns ==
    /\ i_pc = "loop"
    /\ invoke_calls' = Append(invoke_calls, OutcomeClass(Response))
    /\ last_outcome' = Response
    /\ i_pc' = "returned"
    /\ UNCHANGED << attempt, last_err, sleeps, raised >>
    /\ UNCHANGED << vvars, xvars >>

\* lines 337-369 for an exception that is retried: last_err, the back-off sleep,
\* then the next attempt or, after the last one, the RuntimeError of line 373
Retried(e) ==
    /\ Handling(e) = "retry"
    /\ last_err' = e
    /\ \E r \in 0 .. JitterSteps - 1 : sleeps' = Append(sleeps, Sleep(attempt, r))
    /\ IF LastAttempt(attempt)
       THEN /\ i_pc' = "raised"
            /\ raised' = [kind |-> "RuntimeError", cause |-> last_err']
            /\ UNCHANGED attempt
       ELSE /\ attempt' = attempt + 1
            /\ UNCHANGED << i_pc, raised >>

\* lines 350-361 for a service error that is not retryable: re-raised
Propagated(e) ==
    /\ Handling(e) = "raise"
    /\ last_err' = e
    /\ i_pc' = "raised"
    /\ raised' = [kind |-> "ClientError", cause |-> e]
    /\ UNCHANGED << attempt, sleeps >>

\* one iteration of the loop in which invoke_model (or json.loads) raises e
InvokeFails(e) ==
    /\ i_pc = "loop"
    /\ invoke_calls' = Append(invoke_calls, OutcomeClass(e))
    /\ last_outcome' = e
    /\ \/ Retried(e)
       \/ Propagated(e)
    /\ UNCHANGED << vvars, xvars >>

\* lines 337-349
InvokeNetworkError ==
    /\ i_pc = "loop"
    /\ \E e \in NetworkErrors : InvokeFails(e)

\* lines 350-361
InvokeClientError ==
    /\ i_pc = "loop"
    /\ \E e \in ClientErrors : InvokeFails(e)

\* lines 362-369
InvokeOtherError ==
    /\ i_pc = "loop"
    /\ \E e \in OtherErrors : InvokeFails(e)

InvokerNext ==
    \/ InvokeReturns
    \/ InvokeNetworkError
    \/ InvokeClientError
    \/ InvokeOtherError

SpecInvoker == InvokerInit /\ [][InvokerNext]_vars

-----------------------------------------------------------------------------
(***************************************************************************)
(* lambda2.py: values                                                      *)
(***************************************************************************)
\* the reference description stored for a code
RefDesc(code) == << "ref", code >>

\* a description as submitted on the bill
BillDesc == "txt"
\* a description attribute holding a number, which DynamoDB hands back as a Decimal
DecimalDesc == "Decimal"

CodesOf(rows) == { rows[i].code : i \in 1 .. Len(rows) }

\* scan results: one row per code, in key order
RowSeqs(Descs) ==
    { s \in UNION { [1 .. n -> [code : Codes, description : Descs]] : n \in 0 .. MaxCodes } :
        \A i \in 1 .. Len(s) - 1 : s[i].code < s[i + 1].code }

\* an entry of `issues`; arg is a sequence: empty, a code, or a verbatim text
Issue(kind, arg) == [kind |-> kind, arg |-> arg]
NoArg == << >>
CodeArg(code) == << "code", code >>

\* a message that is None (messages are sequences of characters)
NoMsg == << None >>

\* Python truthiness of a description
Truthy(desc) == desc # None /\ desc # ""

-----------------------------------------------------------------------------
(***************************************************************************)
(* lambda2.py: batch_compare_with_bedrock                                  *)
(***************************************************************************)
\* what one bedrock.invoke_model call of the batch comparison can produce: an
\* error, a text that is no JSON, or a JSON list of up to n + 1 elements
\* (zip at lines 428 and 491 drops the elements beyond the n-th, so one value
\* is drawn for the element after the n-th)
CompareReplies(n) ==
    { [kind |-> k, tokens |-> << >>] : k \in {"throttled", "not_json"} }
    \cup { [kind |-> "list", tokens |-> t] :
             t \in UNION { [1 .. m -> Tokens] : m \in 0 .. n } }
    \cup { [kind |-> "list", tokens |-> Append(t, << "Y", "E", "S" >>)] :
             t \in [1 .. n -> Tokens] }

\* faulty variant of Classify: an uninterpretable element counts as a mismatch
ClassifyStrict(val) ==
    IF UpperStartsWith(val, <<"Y">>) THEN "True" ELSE "False"

\* lines 264-272
Classify(val) ==
    IF UpperStartsWith(val, <<"Y">>) THEN "True"
    ELSE IF UpperStartsWith(val, <<"N">>) THEN "False"
    ELSE None

\* lines 225-278: the list of True / False / None returned for `pairs`
BatchCompare(pairs, reply) ==
    IF pairs = << >> THEN << >>
    ELSE IF reply.kind = "list"
         THEN [i \in 1 .. Len(reply.tokens) |-> Classify(reply.tokens[i])]
         ELSE [i \in 1 .. Len(pairs) |-> None]

\* the call log after a batch comparison: one call, and only if there are pairs
LogCompare(log, site, pairs, reply) ==
    IF pairs = << >> THEN log
    ELSE Append(log, [site |-> site, outcome |-> reply.kind, text |-> << >>])

-----------------------------------------------------------------------------
(***************************************************************************)
(* lambda2.py: check_cpt_justification_with_bedrock                        *)
(***************************************************************************)
JustificationReplies ==
    { [kind |-> "throttled", text |-> << >>] }
    \cup { [kind |-> "text", text |-> t] : t \in JustificationTexts }

\* lines 313-337: (justified, message)
CheckJustification(reply) ==
    IF reply.kind = "text"
    THEN IF UpperStartsWith(reply.text, <<"O", "K">>)
         THEN [justified |-> "True", msg |-> NoMsg]
         ELSE [justified |-> "False", msg |-> reply.text]
    ELSE [justified |-> None, msg |-> << reply.kind >>]

-----------------------------------------------------------------------------
(***************************************************************************)
(* lambda2.py: lambda_handler, the loops over the fetched rows             *)
(***************************************************************************)
\* faulty variant of IcdCase: a diagnosis without a reference entry is never
\* used with its submitted description
IcdCaseWithoutFallback(entry, ref) ==
    IF entry.code \in ref
    THEN IF Truthy(entry.description) THEN "pair" ELSE "reference"
    ELSE "skip"

\* lines 385-423: which of the four cases applies to one ICD entry
IcdCase(entry, ref) ==
    IF entry.code \in ref
    THEN IF Truthy(entry.description) THEN "pair" ELSE "reference"
    ELSE IF Truthy(entry.description) THEN "temporary" ELSE "skip"

\* lines 385-423, one iteration; acc = [issues, evidence, items]
IcdStep(acc, entry, ref) ==
    LET c == IcdCase(entry, ref) IN
    CASE c = "pair" ->
           [acc EXCEPT !.items = Append(@, [code |-> entry.code,
                                            icd_desc |-> entry.description,
                                            ref_desc |-> RefDesc(entry.code)])]
      [] c = "reference" ->
           [acc EXCEPT !.evidence = Append(@, [code |-> entry.code,
                                               description |-> RefDesc(entry.code)])]
      [] c = "temporary" ->
           [acc EXCEPT !.issues = Append(@, Issue("icd_not_in_reference", CodeArg(entry.code))),
                       !.evidence = Append(@, [code |-> entry.code,
                                               description |-> entry.description])]
      [] OTHER ->
           [acc EXCEPT !.issues = Append(@, Issue("icd_skipped", CodeArg(entry.code)))]

RECURSIVE IcdLoop(_, _, _)
IcdLoop(acc, entries, ref) ==
    IF entries = << >> THEN acc
    ELSE IcdLoop(IcdStep(acc, Head(entries), ref), Tail(entries), ref)

\* faulty variant of IcdResultStep: a mismatching pair supplies no evidence
IcdResultStepDrop(acc, item, result) ==
    IF result = "False"
    THEN [acc EXCEPT !.issues = Append(@, Issue("icd_mismatch", CodeArg(item.code))),
                     !.all_valid = FALSE]
    ELSE [acc EXCEPT !.evidence = Append(@, [code |-> item.code,
                                             description |-> item.ref_desc])]

\* lines 428-440, one iteration; acc = [issues, evidence, all_valid]
IcdResultStep(acc, item, result) ==
    IF result = "False"
    THEN [acc EXCEPT !.issues = Append(@, Issue("icd_mismatch", CodeArg(item.code))),
                     !.all_valid = FALSE,
                     !.evidence = Append(@, [code |-> item.code,
                                             description |-> item.ref_desc])]
    ELSE [acc EXCEPT !.evidence = Append(@, [code |-> item.code,
                                             description |-> item.ref_desc])]

\* zip(icd_items_for_validation, results) stops at the shorter list
RECURSIVE IcdResultLoop(_, _, _)
IcdResultLoop(acc, items, answers) ==
    IF items = << >> \/ answers = << >> THEN acc
    ELSE IcdResultLoop(IcdResultStep(acc, Head(items), Head(answers)),
                       Tail(items), Tail(answers))

\* lines 470-486, one iteration; acc = [issues, items]
CptStep(acc, item, ref) ==
    IF item.code \notin ref
    THEN [acc EXCEPT !.issues = Append(@, Issue("cpt_not_in_reference", CodeArg(item.code)))]
    ELSE [acc EXCEPT !.items = Append(@, [code |-> item.code,
                                          description |-> item.description,
                                          ref_description |-> RefDesc(item.code)])]

RECURSIVE CptLoop(_, _, _)
CptLoop(acc, items, ref) ==
    IF items = << >> THEN acc
    ELSE CptLoop(CptStep(acc, Head(items), ref), Tail(items), ref)

\* lines 491-495, one iteration; acc = [issues, all_valid]
CptResultStep(acc, item, result) ==
    IF result = "False"
    THEN [acc EXCEPT !.issues = Append(@, Issue("cpt_mismatch", CodeArg(item.code))),
                     !.all_valid = FALSE]
    ELSE acc

RECURSIVE CptResultLoop(_, _, _)
CptResultLoop(acc, items, answers) ==
    IF items = << >> \/ answers = << >> THEN acc
    ELSE CptResultLoop(CptResultStep(acc, Head(items), Head(answers)),
                       Tail(items), Tail(answers))

-----------------------------------------------------------------------------
(***************************************************************************)
(* lambda2.py: lambda_handler                                              *)
(***************************************************************************)
\* faulty variant of ApplyJustification: a failed call also fails the verdict
ApplyJustificationStrict(acc, res) ==
    IF res.justified = "False"
    THEN [acc EXCEPT !.issues = Append(@, Issue("justification", res.msg)),
                     !.cpt_icd_issue = res.msg,
                     !.all_valid = FALSE]
    ELSE IF res.justified = None
         THEN [acc EXCEPT !.issues = Append(@, Issue("bedrock_error_justification", NoArg)),
                          !.all_valid = FALSE]
         ELSE acc

\* lines 454-461: what the handler does with (justified, msg)
ApplyJustification(acc, res) ==
    IF res.justified = "False"
    THEN [acc EXCEPT !.issues = Append(@, Issue("justification", res.msg)),
                     !.cpt_icd_issue = res.msg,
                     !.all_valid = FALSE]
    ELSE IF res.justified = None
         THEN [acc EXCEPT !.issues = Append(@, Issue("bedrock_error_justification", NoArg))]
         ELSE acc

\* lines 462-464: line items exist, icd_for_justification is empty
NoEvidence(acc) ==
    [acc EXCEPT !.issues = Append(@, Issue("no_icd_available", NoArg))]

\* json.dumps(payload) at line 69 raises TypeError on a Decimal
Serializable(codes) ==
    \A i \in 1 .. Len(codes) : codes[i].description # DecimalDesc

ValidationResult(tid, valid, iss, just) ==
    [table_id |-> tid, all_valid |-> valid, issues |-> iss,
     cpt_icd_justification_issue |-> just]

\* faulty variant of Payload: the payload is built anew, without the event
PayloadWithoutEvent(tid, validation_result, codes) ==
    [table_id |-> tid, job_id |-> None,
     validation |-> validation_result, cpt_codes |-> codes]

\* lines 60-67: the payload of the asynchronous invocation; it starts as
\* dict(previous_event), which keeps job_id
Payload(tid, validation_result, codes) ==
    [table_id |-> tid, job_id |-> event_job_id,
     validation |-> validation_result, cpt_codes |-> codes]

\* no batch comparison call was made
NoReply == [kind |-> "no_call", tokens |-> << >>]

IdleInvoker ==
    /\ i_pc = "idle"
    /\ attempt = 0
    /\ last_err = NoError
    /\ invoke_calls = << >>
    /\ last_outcome = NoError
    /\ sleeps = << >>
    /\ raised = NotRaised

ValidationInit ==
    /\ v_pc = "start"
    /\ event_table_id \in {"T1", None}
    /\ icd_entries \in RowSeqs({None, BillDesc})
    /\ med_bill_rows \in RowSeqs({BillDesc, DecimalDesc})
    /\ event_table_id = None => (icd_entries = << >> /\ med_bill_rows = << >>)
    /\ icd_reference \in SUBSET CodesOf(icd_entries)
    /\ cpt_reference \in SUBSET CodesOf(med_bill_rows)
    /\ all_valid = TRUE
    /\ issues = << >>
    /\ cpt_icd_issue = NoMsg
    /\ cpt_codes = << >>
    /\ icd_for_justification = << >>
    /\ icd_items_for_validation = << >>
    /\ icd_reply = NoReply
    /\ icd_results = << >>
    /\ cpt_items_for_validation = << >>
    /\ cpt_reply = NoReply
    /\ cpt_results = << >>
    /\ justified = "not_called"
    /\ bedrock_calls = << >>
    /\ handoffs = << >>
    /\ returned = "running"
    /\ event_job_id = "J1"
    /\ IdleInvoker
    /\ IdleOthers

\* lines 365-371
MissingTableId ==
    /\ v_pc = "start"
    /\ event_table_id = None
    /\ issues' = Append(issues, Issue("missing_table_id", NoArg))
    /\ handoffs' = Append(handoffs,
                          Payload(event_table_id,
                                  ValidationResult(None, FALSE, issues', << "absent" >>),
                                  << >>))
    /\ returned' = FALSE
    /\ v_pc' = "done"
    /\ UNCHANGED << event_job_id, event_table_id, icd_entries, med_bill_rows, icd_reference,
                    cpt_reference, all_valid, cpt_icd_issue, cpt_codes,
                    icd_for_justification, icd_items_for_validation, icd_reply,
                    icd_results, cpt_items_for_validation, cpt_reply,
                    cpt_results, justified, bedrock_calls >>
    /\ UNCHANGED << ivars, xvars >>

\* lines 373-440
IcdValidation ==
    /\ v_pc = "start"
    /\ event_table_id # None
    /\ LET scanned == IF icd_entries = << >>
                      THEN [issues |-> Append(issues, Issue("no_icd_entries", NoArg)),
                            evidence |-> << >>, items |-> << >>]
                      ELSE IcdLoop([issues |-> issues, evidence |-> << >>,
                                    items |-> << >>],
                                   icd_entries, icd_reference)
       IN \E reply \in CompareReplies(Len(scanned.items)) \cup {NoReply} :
            LET compared == BatchCompare(scanned.items, reply)
                after == IcdResultLoop([issues |-> scanned.issues,
                                        evidence |-> scanned.evidence,
                                        all_valid |-> all_valid],
                                       scanned.items, compared)
            IN /\ scanned.items = << >> <=> reply = NoReply
               /\ icd_items_for_validation' = scanned.items
               /\ icd_reply' = reply
               /\ icd_results' = compared
               /\ bedrock_calls' = LogCompare(bedrock_calls, "icd_compare",
                                              scanned.items, reply)
               /\ issues' = after.issues
               /\ icd_for_justification' = after.evidence
               /\ all_valid' = after.all_valid
    /\ v_pc' = "cpt"
    /\ UNCHANGED << event_job_id, event_table_id, icd_entries, med_bill_rows, icd_reference,
                    cpt_reference, cpt_icd_issue, cpt_codes,
                    cpt_items_for_validation, cpt_reply, cpt_results, justified,
                    handoffs, returned >>
    /\ UNCHANGED << ivars, xvars >>

\* lines 443-464
CptJustification ==
    /\ v_pc = "cpt"
    /\ cpt_codes' = med_bill_rows
    /\ LET acc == [issues |-> issues, all_valid |-> all_valid,
                   cpt_icd_issue |-> cpt_icd_issue]
       IN IF cpt_codes' = << >>
          THEN /\ issues' = Append(issues, Issue("no_cpt_codes", NoArg))
               /\ all_valid' = FALSE
               /\ UNCHANGED << cpt_icd_issue, justified, bedrock_calls >>
          ELSE IF icd_for_justification # << >>
               THEN \E reply \in JustificationReplies :
                      LET res == CheckJustification(reply)
                          after == ApplyJustification(acc, res)
                      IN /\ justified' = res.justified
                         /\ bedrock_calls' = Append(bedrock_calls,
                                                    [site |-> "justification",
                                                     outcome |-> reply.kind,
                                                     text |-> reply.text])
                         /\ issues' = after.issues
                         /\ all_valid' = after.all_valid
                         /\ cpt_icd_issue' = after.cpt_icd_issue
               ELSE LET after == NoEvidence(acc)
                    IN /\ issues' = after.issues
                       /\ all_valid' = after.all_valid
                       /\ cpt_icd_issue' = after.cpt_icd_issue
                       /\ UNCHANGED << justified, bedrock_calls >>
    /\ v_pc' = "cptref"
    /\ UNCHANGED << event_job_id, event_table_id, icd_entries, med_bill_rows, icd_reference,
                    cpt_reference, icd_for_justification,
                    icd_items_for_validation, icd_reply, icd_results,
                    cpt_items_for_validation, cpt_reply, cpt_results, handoffs,
                    returned >>
    /\ UNCHANGED << ivars, xvars >>

\* faulty variant of Finish: the except clause hands off the verdict reached
\* so far
FinishKeepsVerdict(tid, valid, iss, just, codes) ==
    [payload |-> Payload(tid,
                         ValidationResult(tid, valid,
                                          IF Serializable(codes) THEN iss
                                          ELSE Append(iss, Issue("exception", NoArg)),
                                          just),
                         IF Serializable(codes) THEN codes ELSE << >>),
     issues |-> IF Serializable(codes) THEN iss
                ELSE Append(iss, Issue("exception", NoArg)),
     returned |-> valid]

\* lines 497-514: the payload handed off and the value returned; building the
\* normal payload raises when it is not serializable, and the except clause
\* then hands off a failed result with one more issue and no CPT codes
Finish(tid, valid, iss, just, codes) ==
    IF Serializable(codes)
    THEN [payload |-> Payload(tid, ValidationResult(tid, valid, iss, just), codes),
          issues |-> iss,
          returned |-> valid]
    ELSE [payload |-> Payload(tid,
                              ValidationResult(tid, FALSE,
                                               Append(iss, Issue("exception", NoArg)),
                                               << "absent" >>),
                              << >>),
          issues |-> Append(iss, Issue("exception", NoArg)),
          returned |-> FALSE]

\* lines 466-514: CPT reference validation, then the hand-off and the return
CptReferenceValidation ==
    /\ v_pc = "cptref"
    /\ LET looked == CptLoop([issues |-> issues, items |-> << >>],
                             cpt_codes, cpt_reference)
       IN \E reply \in CompareReplies(Len(looked.items)) \cup {NoReply} :
            LET compared == BatchCompare(looked.items, reply)
                after == CptResultLoop([issues |-> looked.issues,
                                        all_valid |-> all_valid],
                                       looked.items, compared)
                fin == Finish(event_table_id, after.all_valid, after.issues,
                              cpt_icd_issue, cpt_codes)
            IN /\ looked.items = << >> <=> reply = NoReply
               /\ cpt_items_for_validation' = looked.items
               /\ cpt_reply' = reply
               /\ cpt_results' = compared
               /\ bedrock_calls' = LogCompare(bedrock_calls, "cpt_compare",
                                              looked.items, reply)
               /\ all_valid' = after.all_valid
               /\ issues' = fin.issues
               /\ handoffs' = Append(handoffs, fin.payload)
               /\ returned' = fin.returned
    /\ v_pc' = "done"
    /\ UNCHANGED << event_job_id, event_table_id, icd_entries, med_bill_rows, icd_reference,
                    cpt_reference, cpt_icd_issue, cpt_codes,
                    icd_for_justification, icd_items_for_validation, icd_reply,
                    icd_results, justified >>
    /\ UNCHANGED << ivars, xvars >>

ValidationNext ==
    \/ MissingTableId
    \/ IcdValidation
    \/ CptJustification
    \/ CptReferenceValidation

SpecValidation == ValidationInit /\ [][ValidationNext]_vars

-----------------------------------------------------------------------------
(***************************************************************************)
(* Properties of the validation stage (SpecValidation)                     *)
(***************************************************************************)
Done == v_pc = "done"

YesToken == <<"Y", "E", "S">>
NoToken == <<"n", "o">>
UnparseableToken == <<"m", "a", "y", "b", "e">>
AffirmativeTexts == { <<"o", "k", ".">> }

CountIssue(kind, arg) ==
    Cardinality({ i \in 1 .. Len(issues) :
                    issues[i].kind = kind /\ issues[i].arg = arg })

HasIssue(kind) == \E i \in 1 .. Len(issues) : issues[i].kind = kind

\* how often the reference description of `code` is in the justification evidence
CountEvidence(code) ==
    Cardinality({ i \in 1 .. Len(icd_for_justification) :
                    icd_for_justification[i] =
                        [code |-> code, description |-> RefDesc(code)] })

\* the answers that zip pairs with the queued items
Answered(items, reply) ==
    IF reply.kind = "list" THEN 1 .. Min(Len(items), Len(reply.tokens)) ELSE {}

IcdMismatch ==
    \E i \in Answered(icd_items_for_validation, icd_reply) :
        icd_reply.tokens[i] = NoToken

CptMismatch ==
    \E i \in Answered(cpt_items_for_validation, cpt_reply) :
        cpt_reply.tokens[i] = NoToken

NoLineItems == cpt_codes = << >>

NoUsableDiagnoses == icd_for_justification = << >>

JustificationFailed == justified = "False"

ExceptPath == HasIssue("exception")

\* C1: when the handler has finished without taking its except clause, the
\* verdict is false if and only if a line-item description mismatch, a
\* diagnosis description mismatch, no line items, no usable diagnosis evidence
\* or an explicit justification failure occurred.
C1_VerdictIffFiveConditions ==
    (Done /\ ~ExceptPath) =>
        ((returned = FALSE) <=>
            (CptMismatch \/ IcdMismatch \/ NoLineItems \/ NoUsableDiagnoses
               \/ JustificationFailed))

\* C2: when the handler has finished with line items found and no usable
\* diagnosis evidence, the verdict is false, the issues hold the "no ICD codes
\* available" entry, and every line item without a reference entry has its
\* "not found in reference" entry.
C2_NoEvidenceFailsVerdict ==
    (Done /\ ~ExceptPath /\ cpt_codes # << >> /\ NoUsableDiagnoses) =>
        /\ returned = FALSE
        /\ CountIssue("no_icd_available", NoArg) = 1
        /\ \A i \in 1 .. Len(cpt_codes) :
             cpt_codes[i].code \notin cpt_reference =>
                CountIssue("cpt_not_in_reference", CodeArg(cpt_codes[i].code)) = 1

\* C3: once the diagnoses are validated, every queued pair answered YES has no
\* mismatch issue, every queued pair answered NO has exactly one mismatch issue
\* and the verdict is false (also in the value returned), and in both cases
\* the pair's reference description is in the justification evidence once.
C3_YesNoPairs ==
    v_pc \in {"cpt", "cptref", "done"} =>
        \A i \in Answered(icd_items_for_validation, icd_reply) :
            LET code == icd_items_for_validation[i].code
                tok == icd_reply.tokens[i]
            IN /\ tok = YesToken =>
                    /\ CountIssue("icd_mismatch", CodeArg(code)) = 0
                    /\ CountEvidence(code) = 1
               /\ tok = NoToken =>
                    /\ CountIssue("icd_mismatch", CodeArg(code)) = 1
                    /\ all_valid = FALSE
                    /\ Done => returned = FALSE
                    /\ CountEvidence(code) = 1

\* C3 witness: two queued pairs answered ["YES", "no"], handler finished
C3_Witness ==
    /\ Done
    /\ Len(icd_items_for_validation) = 2
    /\ icd_reply = [kind |-> "list", tokens |-> << YesToken, NoToken >>]
    /\ Len(icd_for_justification) = 2
    /\ returned = FALSE

\* the queued pairs whose answer is no YES and no NO: the token is
\* uninterpretable, or the comparison call failed or returned no JSON
Uninterpreted(items, reply) ==
    IF reply.kind = "list"
    THEN { i \in Answered(items, reply) : reply.tokens[i] = UnparseableToken }
    ELSE IF reply.kind \in {"throttled", "not_json"} THEN 1 .. Len(items)
    ELSE {}

JustificationStep == v_pc = "cpt" /\ v_pc' = "cptref"

LastCall(log) == log[Len(log)]

\* C5: in the justification step, a failed model call appends exactly one
\* issue and leaves the verdict and the justification-failure message as they
\* were; with line items present the verdict changes only on a non-affirmative
\* answer, which sets it to false, stores the answer text as the
\* justification-failure message and appends that text to the issues.
C5_JustificationFailureKeepsVerdict ==
    [][ JustificationStep =>
          LET called == Len(bedrock_calls') = Len(bedrock_calls) + 1
              call == LastCall(bedrock_calls')
          IN /\ (called /\ call.outcome = "throttled") =>
                  /\ issues' = Append(issues, Issue("bedrock_error_justification", NoArg))
                  /\ all_valid' = all_valid
                  /\ cpt_icd_issue' = cpt_icd_issue
             /\ (med_bill_rows # << >> /\ all_valid' # all_valid) =>
                  /\ called
                  /\ call.outcome = "text"
                  /\ call.text \notin AffirmativeTexts
             /\ (called /\ call.outcome = "text" /\ call.text \notin AffirmativeTexts) =>
                  /\ all_valid' = FALSE
                  /\ cpt_icd_issue' = call.text
                  /\ issues' = Append(issues, Issue("justification", call.text))
             /\ (called /\ call.outcome = "text" /\ call.text \in AffirmativeTexts) =>
                  /\ all_valid' = all_valid
                  /\ issues' = issues
                  /\ cpt_icd_issue' = cpt_icd_issue
      ]_vars

\* C5 witness: the justification call failed and the verdict is still true
C5_Witness ==
    /\ v_pc = "cptref"
    /\ justified = None
    /\ LastCall(bedrock_calls).site = "justification"
    /\ LastCall(bedrock_calls).outcome = "throttled"
    /\ all_valid = TRUE
    /\ issues[Len(issues)] = Issue("bedrock_error_justification", NoArg)

\* C10: a model call that failed transiently (throttling) is never the only
\* call its site made: the failure is retried instead of being the outcome of
\* the comparison or of the justification check.
C10_TransientFailureRetried ==
    \A i \in 1 .. Len(bedrock_calls) :
        bedrock_calls[i].outcome = "throttled" =>
            \E j \in 1 .. Len(bedrock_calls) :
                j # i /\ bedrock_calls[j].site = bedrock_calls[i].site

-----------------------------------------------------------------------------
(***************************************************************************)
(* Properties of the retrying invoker (SpecInvoker)                        *)
(***************************************************************************)
NumTransient ==
    Cardinality({ k \in 1 .. Len(invoke_calls) : invoke_calls[k] = "transient" })

AllTransient == \A k \in 1 .. Len(invoke_calls) : invoke_calls[k] = "transient"

\* C6: a call that succeeds after N transient failures, N < MAX_RETRIES, is
\* returned after exactly N + 1 calls and N sleeps; while fewer than
\* MAX_RETRIES calls were made and all failed transiently the invoker is still
\* in its loop, with one sleep per failure; a successful call always returns.
C6_SuccessAfterTransientFailures ==
    /\ i_pc = "returned" =>
         /\ Len(invoke_calls) = NumTransient + 1
         /\ invoke_calls[NumTransient + 1] = "ok"
         /\ Len(sleeps) = NumTransient
         /\ NumTransient < MAX_RETRIES
         /\ raised = NotRaised
    /\ (AllTransient /\ Len(invoke_calls) < MAX_RETRIES) =>
         /\ i_pc = "loop"
         /\ Len(sleeps) = Len(invoke_calls)
    /\ (\E k \in 1 .. Len(invoke_calls) : invoke_calls[k] = "ok") => i_pc = "returned"

\* C6 witness: success on the last permitted attempt, after an unclassified failure
C6_Witness ==
    /\ i_pc = "returned"
    /\ NumTransient = MAX_RETRIES - 1
    /\ last_err.type = "Other"

\* C7: never more than MAX_RETRIES calls; when every call failed transiently
\* and the invoker has stopped, it made exactly MAX_RETRIES calls and raised
\* the synthesized RuntimeError carrying the error of the last call.
C7_ExhaustionRaisesOnce ==
    /\ Len(invoke_calls) <= MAX_RETRIES
    /\ (AllTransient /\ i_pc # "loop") =>
         /\ Len(invoke_calls) = MAX_RETRIES
         /\ i_pc = "raised"
         /\ raised = [kind |-> "RuntimeError", cause |-> last_outcome]
    /\ raised.kind = "RuntimeError" => (AllTransient /\ Len(invoke_calls) = MAX_RETRIES)

\* C7 witness: MAX_RETRIES transient failures, the last one a service error
C7_Witness ==
    /\ i_pc = "raised"
    /\ raised.kind = "RuntimeError"
    /\ raised.cause.type = "ClientError"
    /\ Len(invoke_calls) = MAX_RETRIES

\* C8: a service error that is not retryable ends the invoke in the attempt in
\* which it occurs: it is the last call, it is what the invoker raises, and the
\* only sleeps are those of the earlier attempts.
C8_FatalPropagatesImmediately ==
    \A k \in 1 .. Len(invoke_calls) :
        invoke_calls[k] = "fatal" =>
            /\ k = Len(invoke_calls)
            /\ i_pc = "raised"
            /\ raised = [kind |-> "ClientError", cause |-> last_outcome]
            /\ Len(sleeps) = k - 1

\* C8 witness: a non-retryable service error in the third attempt
C8_Witness ==
    /\ Len(invoke_calls) = 3
    /\ invoke_calls[3] = "fatal"
    /\ i_pc = "raised"
    /\ Len(sleeps) = 2

\* C9: the k-th sleep is the one of attempt k; its delay is
\* RETRY_SLEEP_BASE * 2^(k-1) plus a jitter in [0, RETRY_JITTER_MAX); the
\* deterministic part does not decrease from one attempt to the next.
C9_BackoffDelay ==
    \A k \in 1 .. Len(sleeps) :
        /\ sleeps[k].attempt = k
        /\ sleeps[k].delay = RETRY_SLEEP_BASE * (2 ^ (k - 1)) + sleeps[k].jitter
        /\ 0 <= sleeps[k].jitter
        /\ sleeps[k].jitter < RETRY_JITTER_MAX
        /\ k > 1 => sleeps[k].delay - sleeps[k].jitter
                      >= sleeps[k - 1].delay - sleeps[k - 1].jitter

\* C9 witness: MAX_RETRIES sleeps, the last with a non-zero jitter
C9_Witness ==
    /\ Len(sleeps) = MAX_RETRIES
    /\ sleeps[MAX_RETRIES].jitter > 0
    /\ sleeps[MAX_RETRIES].delay > RETRY_SLEEP_BASE * (2 ^ (MAX_RETRIES - 1))

-----------------------------------------------------------------------------
(***************************************************************************)
(* lambda1.py: lambda_handler, the ingestion coordinator                   *)
(***************************************************************************)
MaxRecords == 2
MaxItems == 1

\* object keys of the upload bucket; record i of a batch names key i
Keys == 1 .. MaxRecords
JobIds == {"J1", "J2"}

\* uuid.uuid4() for table_id: the n-th value handed out
TableId(n) == << "T1", "T2", "T3", "T4", "T5", "T6" >>[n]

\* an extracted item or diagnosis without a code (null or "")
NoCode == 0
\* line 684: f"NO_CODE_{uuid.uuid4()}", the n-th value handed out
PlaceholderCode(n) == 0 - n
\* the key attribute of a table whose rows are not keyed by code
NoKey == 0

Tables == << "patient", "provider", "bill", "items", "icd" >>

\* lines 243-246: _clean_for_ddb drops an attribute that is None or ""
CleanAttr(v) == IF v = "" THEN None ELSE v

Row(tbl, tid, code, description) ==
    [tbl |-> tbl, table_id |-> tid, code |-> code,
     description |-> CleanAttr(description)]

\* put_item replaces the row that has the same key
SameKey(r1, r2) == r1.tbl = r2.tbl /\ r1.table_id = r2.table_id /\ r1.code = r2.code

\* the rows put one after the other: of two with the same key the later stays
PutRows(db, rows) ==
    { r \in db : \A i \in 1 .. Len(rows) : ~ SameKey(r, rows[i]) }
        \cup { rows[i] : i \in { k \in 1 .. Len(rows) :
                                  \A j \in k + 1 .. Len(rows) : ~ SameKey(rows[k], rows[j]) } }

\* what the model can extract from a document (lines 564-567)
ItemLists ==
    UNION { [1 .. n -> [code : {NoCode, 1}, description : {BillDesc}]] : n \in 0 .. MaxItems }
IcdLists ==
    { << >> } \cup { << [code |-> c, description |-> d] >> :
                        c \in {NoCode, 1}, d \in {BillDesc, None} }
ExtractedDocs == [items : ItemLists, icd_10_codes : IcdLists]


\* faulty variant of ItemRows: the code is written as extracted
ItemRowsAsExtracted(items, tid, n) ==
    [i \in 1 .. Len(items) |-> Row("items", tid, items[i].code, items[i].description)]

\* lines 679-692: the rows of the line-item batch; n placeholder ids are in use
ItemRows(items, tid, n) ==
    [i \in 1 .. Len(items) |->
        LET fresh == Cardinality({ j \in 1 .. i : items[j].code = NoCode })
            code_val == IF items[i].code = NoCode THEN PlaceholderCode(n + fresh)
                        ELSE items[i].code
        IN Row("items", tid, code_val, items[i].description)]

\* number of placeholder ids the batch takes
PlaceholdersIn(items) ==
    Cardinality({ i \in 1 .. Len(items) : items[i].code = NoCode })

\* line 678: batch_writer() with its default flush_amount sends the buffered
\* rows in requests of at most 25, one whenever the buffer has filled and one
\* for the rest at the end of the with block
FlushAmount == 25

RECURSIVE Flushes(_)
Flushes(rows) ==
    IF Len(rows) <= FlushAmount THEN << rows >>
    ELSE << SubSeq(rows, 1, FlushAmount) >>
            \o Flushes(SubSeq(rows, FlushAmount + 1, Len(rows)))

\* BatchWriteItem rejects a batch that holds the same key twice
BatchAccepted(rows) ==
    Cardinality({ rows[i].code : i \in 1 .. Len(rows) }) = Len(rows)

\* an itemised bill: more line items than one request of the batch holds, the
\* last with the code of the first
ItemisedBills ==
    { [items |-> [i \in 1 .. FlushAmount + 1 |->
                    [code |-> IF i <= FlushAmount THEN i ELSE 1,
                     description |-> BillDesc]],
       icd_10_codes |-> << >>] }

\* lines 702-717: one put per diagnosis that has a code
RECURSIVE IcdWrites(_, _)
IcdWrites(icds, tid) ==
    IF icds = << >> THEN << >>
    ELSE (IF Head(icds).code = NoCode
          THEN << >>
          ELSE << << Row("icd", tid, Head(icds).code, Head(icds).description) >> >>)
            \o IcdWrites(Tail(icds), tid)

\* lines 636-716: the write requests of one document, in program order; each
\* is the sequence of rows of one put_item or of one request of the line-item
\* batch
Writes(d, tid, n) ==
    << << Row("patient", tid, NoKey, None) >>,
       << Row("provider", tid, NoKey, None) >>,
       << Row("bill", tid, NoKey, None) >> >>
      \o (IF d.items = << >> THEN << >> ELSE Flushes(ItemRows(d.items, tid, n)))
      \o IcdWrites(d.icd_10_codes, tid)

\* the first f write requests applied to the tables
RECURSIVE ApplyWrites(_, _, _)
ApplyWrites(db, writes, f) ==
    IF f = 0 THEN db
    ELSE ApplyWrites(PutRows(db, Head(writes)), Tail(writes), f - 1)

\* a write request can be refused by the service at any time; the line-item
\* batch is refused whenever it holds a duplicate key
CanSucceed(writes, f) ==
    \A i \in 1 .. f : Len(writes[i]) > 1 => BatchAccepted(writes[i])

\* ways _invoke_full_extraction fails (lines 398-402): a fatal service
\* error, exhausted retries, or text that is not JSON
ExtractionFailures == {"fatal", "exhausted", "parse_error"}

Call(i, step, ok) == [idx |-> i, step |-> step, ok |-> ok]

RECURSIVE PutCalls(_, _)
PutCalls(i, n) ==
    IF n = 0 THEN << >> ELSE PutCalls(i, n - 1) \o << Call(i, "put", TRUE) >>

\* lines 426-435: the payload of the asynchronous invocation
ChainPayload(key, tid, jid) == [object_key |-> key, table_id |-> tid, job_id |-> jid]

\* lines 796-801
ResultEntry(key, parsed, pages) ==
    [key |-> key, parsed_any_page |-> parsed, pages |-> pages]

\* an object of the upload bucket
SourceObject(key, jid, content_type, body) ==
    [key |-> key, job_id |-> jid, content_type |-> content_type, body |-> body]

ObjectAt(key) == { o \in source_bucket : o.key = key }

\* lines 505-511: job_id as read from the object's metadata
MetadataJobId(key) ==
    IF ObjectAt(key) = {} THEN None ELSE (CHOOSE o \in ObjectAt(key) : TRUE).job_id

\* lines 479-482
NoRecords ==
    /\ c_pc = "start"
    /\ records = << >>
    /\ c_pc' = "returned"
    /\ UNCHANGED << records, idx, table_id, job_id, parsed_any_page, page_results,
                    data, results, minted, placeholders, cooldowns, chain_queue, clog >>
    /\ UNCHANGED << svars, cframe >>

\* faulty variant of MintedAfterFetch: the identifiers are generated first
MintedBeforeFetch(ok) == TRUE

\* line 531: whether table_id is set when the fetch step has ended
MintedAfterFetch(ok) == ok

\* faulty variant of NextStep: `continue` leaves the record at once
NextStepSkipsCleanup(step, ok) ==
    CASE step = "fetch" -> IF ok THEN "extract" ELSE "chain"
      [] step = "extract" -> IF ok THEN "persist" ELSE "next"
      [] step = "persist" -> "chain"
      [] step = "chain" -> "delete"
      [] step = "delete" -> "next"

\* faulty variant of NextStep: a persistence error ends the invocation
NextStepAborts(step, ok) ==
    CASE step = "fetch" -> IF ok THEN "extract" ELSE "chain"
      [] step = "extract" -> IF ok THEN "persist" ELSE "chain"
      [] step = "persist" -> IF ok THEN "chain" ELSE "returned"
      [] step = "chain" -> "delete"
      [] step = "delete" -> "next"

\* faulty variant of NextStep: a failed submission ends the record
NextStepEscalates(step, ok) ==
    CASE step = "fetch" -> IF ok THEN "extract" ELSE "chain"
      [] step = "extract" -> IF ok THEN "persist" ELSE "chain"
      [] step = "persist" -> "chain"
      [] step = "chain" -> IF ok THEN "delete" ELSE "next"
      [] step = "delete" -> "next"

\* faulty variant of NextStep: the next stage is invoked before the writes
NextStepChainsFirst(step, ok) ==
    CASE step = "fetch" -> IF ok THEN "extract" ELSE "delete"
      [] step = "extract" -> IF ok THEN "chain" ELSE "delete"
      [] step = "chain" -> "persist"
      [] step = "persist" -> "delete"
      [] step = "delete" -> "next"

\* lines 501-805: the try / except / finally structure of one record.  A
\* failed fetch and a persistence error reach the catch-all at line 753, a
\* failed extraction the `continue` at line 559; all three run the finally
\* block, which chains (762-777) and then deletes (782-792).
NextStep(step, ok) ==
    CASE step = "fetch" -> IF ok THEN "extract" ELSE "chain"
      [] step = "extract" -> IF ok THEN "persist" ELSE "chain"
      [] step = "persist" -> "chain"
      [] step = "chain" -> "delete"
      [] step = "delete" -> "next"

\* lines 505-531: s3.get_object, the metadata, the body, the identifiers
FetchDocument ==
    /\ c_pc \in {"start", "fetch"}
    /\ idx <= Len(records)
    /\ \E ok \in BOOLEAN :
         /\ ok => ObjectAt(records[idx]) # {}
         /\ job_id' = IF ok THEN MetadataJobId(records[idx]) ELSE None
         /\ minted' = IF MintedAfterFetch(ok) THEN minted + 1 ELSE minted
         /\ table_id' = IF MintedAfterFetch(ok) THEN TableId(minted + 1) ELSE None
         /\ c_pc' = NextStep("fetch", ok)
         /\ clog' = Append(clog, Call(idx, "fetch", ok))
    /\ UNCHANGED << records, idx, parsed_any_page, page_results, data, results,
                    placeholders, cooldowns, chain_queue >>
    /\ UNCHANGED << svars, cframe >>

\* lines 533-559: the one model call for the whole document
Extract(docs) ==
    /\ c_pc = "extract"
    /\ \/ \E d \in docs :
            /\ data' = << d >>
            /\ clog' = Append(clog, Call(idx, "extract", TRUE))
            /\ c_pc' = NextStep("extract", TRUE)
            /\ UNCHANGED << page_results, cooldowns, results >>
       \/ \E failure \in ExtractionFailures :
            /\ page_results' = Append(page_results, [parsed |-> FALSE])
            /\ cooldowns' = cooldowns + 1
            /\ results' = Append(results,
                                 ResultEntry(records[idx], FALSE, page_results'))
            /\ clog' = Append(clog, Call(idx, "extract", FALSE))
            /\ c_pc' = NextStep("extract", FALSE)
            /\ UNCHANGED data
    /\ UNCHANGED << records, idx, table_id, job_id, parsed_any_page, minted,
                    placeholders, chain_queue >>
    /\ UNCHANGED << svars, cframe >>

ExtractDocument == Extract(ExtractedDocs)

\* the same call, returning an itemised bill
ExtractItemisedBill == Extract(ItemisedBills)

\* lines 564-757: normalisation and the DynamoDB writes; the first f write
\* requests succeed and, unless all did, the next one raises
PersistDocument ==
    /\ c_pc = "persist"
    /\ LET d == data[1]
           writes == Writes(d, table_id, placeholders)
       IN \E f \in 0 .. Len(writes) :
            /\ CanSucceed(writes, f)
            /\ ddb' = ApplyWrites(ddb, writes, f)
            /\ placeholders' = IF f >= 4 /\ d.items # << >>
                               THEN placeholders + PlaceholdersIn(d.items)
                               ELSE placeholders
            /\ clog' = clog \o PutCalls(idx, f)
                         \o (IF f < Len(writes) THEN << Call(idx, "put", FALSE) >>
                             ELSE << >>)
            /\ IF f = Len(writes)
               THEN /\ parsed_any_page' = TRUE
                    /\ page_results' = Append(page_results, [parsed |-> TRUE])
               ELSE UNCHANGED << parsed_any_page, page_results >>
            /\ c_pc' = NextStep("persist", f = Len(writes))
    /\ UNCHANGED << records, idx, table_id, job_id, data, results, minted,
                    cooldowns, chain_queue >>
    /\ UNCHANGED << source_bucket, result_store, cframe >>

\* lines 762-777: the next stage is invoked unless table_id is None
ChainNextStage ==
    /\ c_pc = "chain"
    /\ IF table_id # None
       THEN \E ok \in BOOLEAN :
              /\ chain_queue' = IF ok
                                THEN Append(chain_queue,
                                            ChainPayload(records[idx], table_id, job_id))
                                ELSE chain_queue
              /\ clog' = Append(clog, Call(idx, "invoke", ok))
              /\ c_pc' = NextStep("chain", ok)
       ELSE /\ clog' = Append(clog, Call(idx, "skip", TRUE))
            /\ c_pc' = NextStep("chain", TRUE)
            /\ UNCHANGED chain_queue
    /\ UNCHANGED << records, idx, table_id, job_id, parsed_any_page, page_results,
                    data, results, minted, placeholders, cooldowns >>
    /\ UNCHANGED << svars, cframe >>

\* lines 782-792: s3.delete_object; a failure is logged
DeleteSource ==
    /\ c_pc = "delete"
    /\ \E ok \in BOOLEAN :
         /\ source_bucket' = IF ok THEN source_bucket \ ObjectAt(records[idx])
                             ELSE source_bucket
         /\ clog' = Append(clog, Call(idx, "delete", ok))
         /\ c_pc' = NextStep("delete", ok)
    /\ UNCHANGED << records, idx, table_id, job_id, parsed_any_page, page_results,
                    data, results, minted, placeholders, cooldowns, chain_queue >>
    /\ UNCHANGED << ddb, result_store, cframe >>

\* lines 794-808: the result entry of the record, then the next record or
\* the return
NextRecord ==
    /\ c_pc = "next"
    /\ results' = Append(results,
                         ResultEntry(records[idx], parsed_any_page, page_results))
    /\ idx' = idx + 1
    /\ parsed_any_page' = FALSE
    /\ page_results' = << >>
    /\ table_id' = None
    /\ job_id' = None
    /\ c_pc' = IF idx' > Len(records) THEN "returned" ELSE "fetch"
    /\ UNCHANGED << records, data, minted, placeholders, cooldowns, chain_queue,
                    clog >>
    /\ UNCHANGED << svars, cframe >>

IngestionInit ==
    /\ c_pc = "start"
    /\ records \in { [i \in 1 .. n |-> i] : n \in 0 .. MaxRecords }
    /\ idx = 1
    /\ table_id = None
    /\ job_id = None
    /\ parsed_any_page = FALSE
    /\ page_results = << >>
    /\ data = << >>
    /\ results = << >>
    /\ minted = 0
    /\ placeholders = 0
    /\ cooldowns = 0
    /\ chain_queue = << >>
    /\ clog = << >>
    /\ \E j \in JobIds :
         source_bucket = { SourceObject(records[i], j, "application/pdf", "%PDF-1") :
                             i \in 1 .. Len(records) }
    /\ ddb = {}
    /\ result_store = {}
    /\ IdleValidation
    /\ IdleInvoker
    /\ IdleReconciliation
    /\ IdleRetrieval
    /\ IdlePipeline
    /\ IdleHelpers

IngestionNext ==
    \/ NoRecords
    \/ FetchDocument
    \/ ExtractDocument
    \/ PersistDocument
    \/ ChainNextStage
    \/ DeleteSource
    \/ NextRecord

SpecIngestion == IngestionInit /\ [][IngestionNext]_vars

\* the ingestion handler when the documents include itemised bills
ItemisedBillNext ==
    \/ IngestionNext
    \/ ExtractItemisedBill

SpecItemisedBill == IngestionInit /\ [][ItemisedBillNext]_vars

-----------------------------------------------------------------------------
(***************************************************************************)
(* Properties of the ingestion coordinator                                 *)
(***************************************************************************)
RecordIds == 1 .. Len(records)

CallsOf(i, step) == { p \in 1 .. Len(clog) : clog[p].idx = i /\ clog[p].step = step }

CountCalls(i, step) == Cardinality(CallsOf(i, step))

Failed(i, step) == \E p \in CallsOf(i, step) : ~ clog[p].ok

Succeeded(i, step) == \E p \in CallsOf(i, step) : clog[p].ok

\* the handler has left record i behind
Processed(i) == c_pc = "returned" \/ idx > i

\* the last external call made for record i is a delete_object
DeleteIsLast(i) ==
    \A p \in 1 .. Len(clog) :
        clog[p].idx = i =>
            \/ clog[p].step = "delete"
            \/ \E q \in CallsOf(i, "delete") : p < q

\* C11: every record the handler has left behind had exactly one
\* delete_object attempt, made after every other call for that record, and no
\* record ever has more than one
C11_CleanupExactlyOnce ==
    \A i \in RecordIds :
        /\ CountCalls(i, "delete") <= 1
        /\ Processed(i) => (CountCalls(i, "delete") = 1 /\ DeleteIsLast(i))

\* a batch of two has returned: the first record failed in extraction, the
\* second in persistence and its chaining was refused
C11_Witness ==
    /\ c_pc = "returned"
    /\ Len(records) = 2
    /\ Failed(1, "extract")
    /\ Failed(2, "put")
    /\ Failed(2, "invoke")
    /\ CountCalls(1, "delete") = 1
    /\ CountCalls(2, "delete") = 1

\* record i went through its chaining step: one submission or one skip
ChainingReached(i) == CountCalls(i, "invoke") + CountCalls(i, "skip") = 1

\* record i was handled without any failure
Clean(i) ==
    \A p \in 1 .. Len(clog) : clog[p].idx = i => clog[p].ok

\* C12: when the handler returns, every record of the batch was fetched,
\* went through chaining and had its source deleted, whatever failed for the
\* other records; a record without a failure of its own is parsed and chained
C12_FailureIsolation ==
    c_pc = "returned" =>
        \A i \in RecordIds :
            /\ CountCalls(i, "fetch") = 1
            /\ ChainingReached(i)
            /\ CountCalls(i, "delete") = 1
            /\ Clean(i) => /\ Succeeded(i, "extract")
                           /\ Succeeded(i, "put")
                           /\ Succeeded(i, "invoke")
                           /\ \E r \in 1 .. Len(results) :
                                results[r].key = records[i] /\ results[r].parsed_any_page

\* the first record failed while persisting, the second went through cleanly
C12_Witness ==
    /\ c_pc = "returned"
    /\ Len(records) = 2
    /\ Failed(1, "put")
    /\ Clean(2)
    /\ Len(chain_queue) = 2

\* record i failed and no write of it succeeded
FailedBeforePersistence(i) ==
    /\ Failed(i, "fetch") \/ Failed(i, "extract") \/ Failed(i, "put")
    /\ ~ Succeeded(i, "put")

\* C13 (as stated): a record that failed before any row was persisted,
\* extraction failure included, is never submitted to the next stage
C13_NoChainingBeforePersistence ==
    \A i \in RecordIds :
        FailedBeforePersistence(i) => CountCalls(i, "invoke") = 0

\* C13 (amended): the next stage is skipped exactly for a record whose fetch
\* failed, that is before table_id was generated; a record whose extraction
\* failed is submitted; and no record is submitted more than once
C13_ChainingSkippedIffNoTableId ==
    \A i \in RecordIds :
        /\ CountCalls(i, "invoke") + CountCalls(i, "skip") <= 1
        /\ Failed(i, "fetch") => CountCalls(i, "invoke") = 0
        /\ CountCalls(i, "skip") = 1 => Failed(i, "fetch")
        /\ (Processed(i) /\ Failed(i, "fetch")) => CountCalls(i, "skip") = 1
        /\ (Processed(i) /\ Failed(i, "extract")) => CountCalls(i, "invoke") = 1

\* one record's fetch failed and its chaining was skipped, the other record's
\* extraction failed and it was submitted to the next stage
C13_Witness ==
    /\ c_pc = "returned"
    /\ Len(records) = 2
    /\ Failed(1, "fetch")
    /\ CountCalls(1, "skip") = 1
    /\ Failed(2, "extract")
    /\ Succeeded(2, "invoke")

\* C14: the chaining step, whether the submission fails or not, only moves
\* the handler on to the deletion, and the deletion step, whether it fails or
\* not, only moves it on to the record's result entry: neither touches the
\* recorded outcome, the rows written, or the position in the batch
C14_ChainAndDeleteFailuresAreLogOnly ==
    [][ /\ c_pc = "chain" =>
             /\ c_pc' = "delete"
             /\ UNCHANGED << parsed_any_page, page_results, results, ddb,
                             source_bucket, idx >>
        /\ c_pc = "delete" =>
             /\ c_pc' = "next"
             /\ UNCHANGED << parsed_any_page, page_results, results, ddb,
                             chain_queue, idx >>
        /\ c_pc = "next" =>
             /\ results' = Append(results, ResultEntry(records[idx], parsed_any_page,
                                                       page_results))
             /\ idx' = idx + 1 ]_vars

\* the submission and the deletion of the first record both failed; it is
\* still recorded as parsed and the second record was fetched
C14_Witness ==
    /\ Len(records) = 2
    /\ Failed(1, "invoke")
    /\ Failed(1, "delete")
    /\ Len(results) >= 1
    /\ results[1].parsed_any_page
    /\ CountCalls(2, "fetch") = 1

\* position of a call in the per-document order
Rank(step) ==
    CASE step = "fetch" -> 0
      [] step = "extract" -> 1
      [] step = "put" -> 2
      [] step \in {"invoke", "skip"} -> 3
      [] step = "delete" -> 4

\* C15: the calls made for one record are ordered fetch, extraction, writes,
\* submission of the next stage, deletion; in particular no write follows the
\* submission
C15_StepsInOrder ==
    \A p, q \in 1 .. Len(clog) :
        (p < q /\ clog[p].idx = clog[q].idx) => Rank(clog[p].step) <= Rank(clog[q].step)

\* a record with a diagnosis and a line item was written in full (five write
\* requests), submitted and deleted
C15_Witness ==
    \E i \in RecordIds :
        /\ CountCalls(i, "put") = 5
        /\ Succeeded(i, "invoke")
        /\ CountCalls(i, "delete") = 1

\* the line-item rows stored for `tid`, and those under a placeholder code
ItemRowsOf(tid) == { r \in ddb : r.tbl = "items" /\ r.table_id = tid }
PlaceholderRows == { r \in ddb : r.tbl = "items" /\ r.code < 0 }

\* put requests answered for record i
OkPuts(i) == Cardinality({ p \in CallsOf(i, "put") : clog[p].ok })

\* C26: no line-item row has an empty code and no two rows share a
\* placeholder code; and once the line-item batch of the current record is
\* written, every extracted item has its row, those without a code under a
\* placeholder code each
C26_ItemCodeNeverEmpty ==
    /\ \A r \in ddb : r.tbl = "items" => r.code # NoCode
    /\ \A r1, r2 \in PlaceholderRows : r1.code = r2.code => r1 = r2
    /\ Cardinality(PlaceholderRows) <= placeholders
    /\ (c_pc \in {"chain", "delete", "next"} /\ OkPuts(idx) >= 4
          /\ data[1].items # << >>) =>
            /\ Cardinality(ItemRowsOf(table_id)) = Len(data[1].items)
            /\ Cardinality(ItemRowsOf(table_id) \cap PlaceholderRows)
                 = PlaceholdersIn(data[1].items)

\* two records, each with an item without a code, are stored under two
\* different placeholder codes
C26_Witness ==
    /\ Cardinality(PlaceholderRows) = 2
    /\ \E r1, r2 \in PlaceholderRows : r1.table_id # r2.table_id /\ r1.code # r2.code

-----------------------------------------------------------------------------
(***************************************************************************)
(* lambda3/index.py: handler, direct invocation with a table_id, and       *)
(* lambda3/fetchPatientData.py: the readers and the purge                  *)
(***************************************************************************)
\* tables read or purged with one unpaginated scan, and the table whose
\* reader follows the first page with a query
SinglePageScans == {"patient", "provider"}

\* where a scan finds the rows of the table_id: "first" page or a "later" one
Pagings == [patient : {"first", "later"}, provider : {"first", "later"},
            items : {"first", "later"}]

RowsOf(db, tbl, tid) == { r \in db : r.tbl = tbl /\ r.table_id = tid }

\* the rows an unpaginated scan returns (fetchPatientData.py lines 71-75,
\* 93-97, 235-239, 265-269)
FirstPage(db, tbl, tid) ==
    IF paging[tbl] = "first" THEN RowsOf(db, tbl, tid) ELSE {}

\* Python truthiness of a message
TruthyMsg(msg) == msg \notin { NoMsg, << "absent" >>, << >> }

\* lines 460-463 of index.py: the handoff carries a validation result whose
\* all_valid is False
DivertsNever(validation) == FALSE

\* faulty variant of Diverts: a handoff is diverted unless it carries a
\* verdict that is true
DivertsUnlessValid(validation) ==
    \/ validation = << >>
    \/ "all_valid" \notin DOMAIN validation[1]
    \/ validation[1].all_valid = FALSE

\* event.get("validation") is None for a handoff without the key, and
\* validation.get("all_valid") is None for a result without a verdict; only
\* `all_valid is False` diverts
Diverts(validation) ==
    /\ validation # << >>
    /\ "all_valid" \in DOMAIN validation[1]
    /\ validation[1].all_valid = FALSE

\* lines 465-478: the text of the invalid-bill result
InvalidMessage(v) ==
    [main |-> IF TruthyMsg(v.cpt_icd_justification_issue)
              THEN v.cpt_icd_justification_issue ELSE NoMsg,
     extra |-> v.issues,
     fallback |-> ~ TruthyMsg(v.cpt_icd_justification_issue) /\ v.issues = << >>]

NoMessage == [main |-> NoMsg, extra |-> << >>, fallback |-> FALSE]

\* lines 322-324: the metadata of every object the handler writes
Metadata(jid) == IF jid # None /\ jid # "" THEN jid ELSE None

ResultObject(key, jid, kind, tid, message, body) ==
    [key |-> key, job_id |-> Metadata(jid), kind |-> kind, table_id |-> tid,
     message |-> message, body |-> body]

Returned(success, reason) == [success |-> success, reason |-> reason]

\* lines 454-463 and 525: what the handler does with the event
ReconcileStart ==
    /\ r_pc = "start"
    /\ IF r_event.table_id = None
       THEN /\ r_pc' = "done"
            /\ r_returned' = Returned(FALSE, "nothing_to_process")
       ELSE /\ r_pc' = IF Diverts(r_event.validation) THEN "invalid" ELSE "build"
            /\ UNCHANGED r_returned
    /\ UNCHANGED << r_event, paging, bill_data, comparison_key, comparison_ids,
                    r_calls, r_reads, r_log, r_faults, r_text >>
    /\ UNCHANGED << svars, rframe >>

\* lines 465-510: the invalid-bill object; a refused put_object raises out of
\* the handler
WriteInvalidResult ==
    /\ r_pc = "invalid"
    /\ comparison_ids' = comparison_ids + 1
    /\ \E ok \in BOOLEAN :
         IF ok
         THEN /\ result_store' = result_store \cup
                   { ResultObject(comparison_ids', r_event.job_id, "invalid_bill",
                                  r_event.table_id,
                                  InvalidMessage(r_event.validation[1]), "none") }
              /\ comparison_key' = comparison_ids'
              /\ r_log' = Append(r_log, << "put_result" >>)
              /\ r_pc' = "cleanup"
              /\ UNCHANGED << r_returned, r_faults >>
         ELSE /\ r_pc' = "raised"
              /\ r_returned' = "raised"
              /\ r_faults' = Append(r_faults, "put_object")
              /\ UNCHANGED << result_store, comparison_key, r_log >>
    /\ UNCHANGED << r_event, paging, bill_data, r_calls, r_reads, r_text >>
    /\ UNCHANGED << source_bucket, ddb, rframe >>

\* fetchPatientData.py lines 228-390: what one delete function removes.
\* delete_patient_info and delete_provider_info scan one page; the bill
\* summary is deleted by key; line items and diagnoses are scanned page by page.
Purged(db, tbl, tid) ==
    IF tbl \in SinglePageScans THEN db \ FirstPage(db, tbl, tid)
    ELSE db \ RowsOf(db, tbl, tid)

\* the five delete functions in the order of lines 409-413; the ones in
\* `failing` raise inside and return False
RECURSIVE PurgeAll(_, _, _, _)
PurgeAll(db, tbls, tid, failing) ==
    IF tbls = << >> THEN db
    ELSE PurgeAll(IF Head(tbls) \in failing THEN db ELSE Purged(db, Head(tbls), tid),
                  Tail(tbls), tid, failing)

PurgeLog == [i \in 1 .. Len(Tables) |-> << "purge", Tables[i] >>]

\* lines 513-523 and 561-575: cleanup_all_data_for_table_id, then the return
CleanupAllData ==
    /\ r_pc = "cleanup"
    /\ \E failing \in { {} } \cup { {t} : t \in { Tables[i] : i \in 1 .. Len(Tables) } } :
         /\ ddb' = PurgeAll(ddb, Tables, r_event.table_id, failing)
         /\ r_faults' = IF failing = {} THEN r_faults ELSE Append(r_faults, "delete")
    /\ r_log' = r_log \o PurgeLog
    /\ r_returned' = Returned(~ Diverts(r_event.validation),
                              IF Diverts(r_event.validation) THEN "invalid" ELSE "compared")
    /\ r_pc' = "done"
    /\ UNCHANGED << r_event, paging, bill_data, comparison_key, comparison_ids,
                    r_calls, r_reads, r_text >>
    /\ UNCHANGED << source_bucket, result_store, rframe >>

\* the readers of _build_bill_data_from_dynamodb, in order
BillReads == << "patient", "provider", "bill", "items" >>

\* what a reader finds: get_patient_info_by_table_id and
\* get_provider_info_by_table_id scan one page, the bill summary is fetched by
\* key, and get_codes_for_table_id returns [] when its scan has a second page
\* (fetchPatientData.py lines 201-205 and 221-223)
ReadRows(tbl, tid, err) ==
    IF tbl = err THEN {}
    ELSE IF tbl \in SinglePageScans THEN FirstPage(ddb, tbl, tid)
    ELSE IF tbl = "items" /\ paging.items = "later" THEN {}
    ELSE RowsOf(ddb, tbl, tid)

\* lines 101-116 of index.py: the first reader that finds nothing ends the build
MissingAt(tid, err) ==
    { i \in 1 .. 3 : ReadRows(BillReads[i], tid, err) = {} }

Lowest(S) == CHOOSE i \in S : \A j \in S : i <= j

\* lines 528-537: the bill is rebuilt from the tables
BuildBillData ==
    /\ r_pc = "build"
    /\ \E err \in {"none", "patient", "provider", "bill", "items"} :
         LET tid == r_event.table_id
             missing == MissingAt(tid, err)
             reads == IF missing # {} THEN SubSeq(BillReads, 1, Lowest(missing))
                      ELSE BillReads
         IN /\ r_faults' = IF \E i \in 1 .. Len(reads) : reads[i] = err
                            THEN Append(r_faults, "read") ELSE r_faults
            /\ IF missing # {}
               THEN /\ r_reads' = r_reads \o reads
                    /\ bill_data' = << >>
                    /\ r_returned' = Returned(FALSE, "no_bill_data")
                    /\ r_pc' = "done"
               ELSE /\ r_reads' = r_reads \o BillReads
                    /\ bill_data' = << [table_id |-> tid,
                                        items |-> { r.code : r \in ReadRows("items", tid, err) }] >>
                    /\ UNCHANGED r_returned
                    /\ r_pc' = "policy"
    /\ UNCHANGED << r_event, paging, comparison_key, comparison_ids, r_calls, r_log,
                    r_text >>
    /\ UNCHANGED << svars, rframe >>

\* lines 540-548: the most recent parsed policy, or None
GetLatestPolicy ==
    /\ r_pc = "policy"
    /\ r_reads' = Append(r_reads, "policy")
    /\ \E found \in BOOLEAN :
         IF found
         THEN /\ r_pc' = "compare"
              /\ UNCHANGED r_returned
         ELSE /\ r_pc' = "done"
              /\ r_returned' = Returned(FALSE, "no_policy")
    /\ UNCHANGED << r_event, paging, bill_data, comparison_key, comparison_ids,
                    r_calls, r_log, r_faults, r_text >>
    /\ UNCHANGED << svars, rframe >>

\* outcomes of bedrock_rt.invoke_model at line 250
CompareCalls == {"ok", "throttled", "client_error", "other_error"}

\* kinds of text the model returns: a JSON object, text without braces, and
\* a brace-delimited span that json.loads rejects (lines 262-266)
CompareTexts == {"json", "no_braces", "bad_json"}

\* lines 298-312: the first except clause names ClientError, which
\* index.py never imports, so any exception raised in the try body leaves
\* _compare_bill_to_policy as a NameError
ExceptionInCompare == "raised"

\* lines 191-312 and 550-558: the comparison call, the parse, the result object
CompareBillToPolicy ==
    /\ r_pc = "compare"
    /\ \E call \in CompareCalls, text \in CompareTexts, put_ok \in BOOLEAN :
         /\ call # "ok" => (text = "json" /\ put_ok)
         /\ text = "bad_json" => put_ok
         /\ r_calls' = Append(r_calls, call)
         /\ r_text' = IF call = "ok" THEN text ELSE "none"
         /\ r_faults' = IF call # "ok" THEN Append(r_faults, "invoke_model")
                         ELSE IF ~ put_ok THEN Append(r_faults, "put_object")
                         ELSE r_faults
         /\ IF call = "ok" /\ text # "bad_json" /\ put_ok
            THEN /\ comparison_ids' = comparison_ids + 1
                 /\ result_store' = result_store \cup
                      { ResultObject(comparison_ids', r_event.job_id, "comparison",
                                     r_event.table_id, NoMessage,
                                     IF text = "json" THEN "parsed" ELSE "raw_response") }
                 /\ comparison_key' = comparison_ids'
                 /\ r_log' = Append(r_log, << "put_result" >>)
                 /\ r_pc' = "cleanup"
                 /\ UNCHANGED r_returned
            ELSE /\ comparison_ids' = IF call = "ok" /\ text # "bad_json"
                                      THEN comparison_ids + 1 ELSE comparison_ids
                 /\ r_pc' = ExceptionInCompare
                 /\ r_returned' = IF ExceptionInCompare = "raised" THEN "raised"
                                  ELSE Returned(FALSE, "comparison_failed")
                 /\ UNCHANGED << result_store, comparison_key, r_log >>
    /\ UNCHANGED << r_event, paging, bill_data, r_reads >>
    /\ UNCHANGED << source_bucket, ddb, rframe >>

\* the validation results a handoff can carry
HandoffValidations ==
    { << >>,
      << [table_id |-> "T1", issues |-> << Issue("no_cpt_codes", NoArg) >>,
          cpt_icd_justification_issue |-> NoMsg] >> } \cup
    { << ValidationResult("T1", valid, iss, just) >> :
        valid \in BOOLEAN,
        iss \in { << >>, << Issue("no_cpt_codes", NoArg) >> },
        just \in { NoMsg, << "I", "S", "S", "U", "E" >> } }

\* rows ingestion can have left for a table_id: none, a patient row only, or
\* a whole document
StoredDocuments(tid) ==
    { {},
      { Row("patient", tid, NoKey, None) },
      { Row("patient", tid, NoKey, None), Row("provider", tid, NoKey, None),
        Row("bill", tid, NoKey, None), Row("items", tid, 1, BillDesc),
        Row("icd", tid, 1, BillDesc) } }

ReconciliationInit ==
    /\ r_pc = "start"
    /\ \E tid \in {"T1", None}, jid \in {"J1", None}, v \in HandoffValidations :
         r_event = [table_id |-> tid, job_id |-> jid, validation |-> v]
    /\ paging \in Pagings
    /\ ddb \in StoredDocuments("T1")
    /\ bill_data = << >>
    /\ comparison_key = 0
    /\ comparison_ids = 0
    /\ r_calls = << >>
    /\ r_reads = << >>
    /\ r_log = << >>
    /\ r_returned = "running"
    /\ r_faults = << >>
    /\ r_text = "none"
    /\ source_bucket = {}
    /\ result_store = {}
    /\ IdleCoordinator
    /\ IdleValidation
    /\ IdleInvoker
    /\ IdleRetrieval
    /\ IdlePipeline
    /\ IdleHelpers

ReconciliationNext ==
    \/ ReconcileStart
    \/ WriteInvalidResult
    \/ BuildBillData
    \/ GetLatestPolicy
    \/ CompareBillToPolicy
    \/ CleanupAllData

SpecReconciliation == ReconciliationInit /\ [][ReconciliationNext]_vars

-----------------------------------------------------------------------------
(***************************************************************************)
(* Properties of the reconciliation handler                                *)
(***************************************************************************)
\* the handler was invoked with a table_id and a validation result whose
\* verdict is false
FalseVerdictHandoff ==
    /\ r_pc # "idle"
    /\ r_event.table_id # None
    /\ r_event.validation # << >>
    /\ "all_valid" \in DOMAIN r_event.validation[1]
    /\ ~ r_event.validation[1].all_valid

ResultsFor(tid) == { o \in result_store : o.table_id = tid }

\* C17: after a handoff with a false verdict the handler makes no model
\* call and reads neither bill nor policy data; it writes at most one object,
\* and once it has got past the write that object is the invalid-bill result
\* with the justification issue and the issue list of the validation result;
\* when it returns, the purge of all five tables has followed the write
C17_InvalidBillShortCircuit ==
    FalseVerdictHandoff =>
        LET v == r_event.validation[1]
        IN /\ r_calls = << >>
           /\ r_reads = << >>
           /\ bill_data = << >>
           /\ Cardinality(result_store) <= 1
           /\ r_pc \in {"cleanup", "done"} =>
                /\ Cardinality(result_store) = 1
                /\ \A o \in result_store :
                     /\ o.kind = "invalid_bill"
                     /\ o.table_id = r_event.table_id
                     /\ o.message.extra = v.issues
                     /\ TruthyMsg(v.cpt_icd_justification_issue) =>
                            o.message.main = v.cpt_icd_justification_issue
           /\ r_pc = "done" => r_log = << << "put_result" >> >> \o PurgeLog
           /\ r_pc = "raised" => (result_store = {} /\ r_log = << >>)

\* a false verdict with a justification issue and one more issue: the
\* invalid-bill result is stored and the handler has returned
C17_Witness ==
    /\ FalseVerdictHandoff
    /\ r_pc = "done"
    /\ r_event.validation[1].issues # << >>
    /\ TruthyMsg(r_event.validation[1].cpt_icd_justification_issue)
    /\ ResultsFor(r_event.table_id) # {}

\* C18 (as stated): once the handler has written a result for a table_id and
\* returned, no row of that table_id is left in any of the five tables, and
\* the purge came after the write
C18_NoRowsAfterResult ==
    (r_pc = "done" /\ comparison_key # 0) =>
        /\ \A r \in ddb : r.table_id # r_event.table_id
        /\ r_log = << << "put_result" >> >> \o PurgeLog

\* C27 (as stated): with no call refused, the readers of the bill find every
\* row of the table_id that is stored (the build ends for lack of data only if
\* a patient, provider or bill row is missing, and the bill built holds the
\* codes of all line-item rows), and the purge leaves no row of the table_id
C27_ScansFollowAllPages ==
    r_faults = << >> =>
        /\ (r_pc = "done" /\ r_returned.reason = "no_bill_data") =>
             \E i \in 1 .. 3 : RowsOf(ddb, BillReads[i], r_event.table_id) = {}
        /\ r_pc \in {"policy", "compare"} =>
             bill_data[1].items =
                { r.code : r \in RowsOf(ddb, "items", r_event.table_id) }
        /\ (r_pc = "done" /\ comparison_key # 0) =>
             \A r \in ddb : r.table_id # r_event.table_id

\* C30 (as stated): once the comparison model has returned text that is no
\* JSON, for lack of braces or for a span json.loads rejects, and no call was
\* refused, a result object holding the text as raw response is stored
C30_UnparsedReplyPreserved ==
    (r_text \in {"no_braces", "bad_json"} /\ r_faults = << >>) =>
        \E o \in result_store :
            /\ o.table_id = r_event.table_id
            /\ o.kind = "comparison"
            /\ o.body = "raw_response"

\* the handler was invoked with a table_id and either no validation result,
\* a validation result without a verdict, or one whose verdict is true
NoFalseVerdictHandoff ==
    /\ r_pc # "idle"
    /\ r_event.table_id # None
    /\ \/ r_event.validation = << >>
       \/ "all_valid" \notin DOMAIN r_event.validation[1]
       \/ r_event.validation[1].all_valid = TRUE

\* C31: a handoff with a table_id and no validation result (or one whose
\* verdict is not false) never takes the invalid-bill path: no invalid-bill
\* object is written, the bill is read from the tables in the order of the
\* readers, the policy is fetched after a complete bill, the model is called
\* only with bill and policy at hand, and a handler that returns gives one of
\* the outcomes of the normal path; conversely the invalid-bill path is
\* taken only under a verdict that is false
C31_AbsentResultProceedsNormally ==
    /\ NoFalseVerdictHandoff =>
         /\ r_pc # "invalid"
         /\ \A o \in result_store : o.kind = "comparison"
         /\ r_pc \notin {"start", "build"} =>
              /\ r_reads # << >>
              /\ r_reads[1] = "patient"
         /\ r_pc \in {"compare", "cleanup"} =>
              /\ bill_data # << >>
              /\ bill_data[1].table_id = r_event.table_id
              /\ r_reads = BillReads \o << "policy" >>
         /\ r_calls # << >> => r_reads = BillReads \o << "policy" >>
         /\ r_pc = "cleanup" => r_calls = << "ok" >>
         /\ r_pc = "done" =>
              r_returned.reason \in {"no_bill_data", "no_policy", "compared"}
    /\ (r_pc = "invalid" \/ \E o \in result_store : o.kind = "invalid_bill") =>
         FalseVerdictHandoff

\* a handoff without a validation result whose bill was rebuilt and compared:
\* the comparison result is stored and the handler has returned success
C31_Witness ==
    /\ r_pc = "done"
    /\ r_event.table_id # None
    /\ r_event.validation = << >>
    /\ r_returned.success
    /\ r_calls = << "ok" >>
    /\ \E o \in result_store : o.kind = "comparison" /\ o.table_id = r_event.table_id

-----------------------------------------------------------------------------
(***************************************************************************)
(* lambda3/index.py: handler, invoked again with an event it already had   *)
(***************************************************************************)
MaxDeliveries == 2

\* lines 315-324 and 453-463: the handler keeps no record of the events it
\* has handled; a second delivery of the event starts it afresh
Redeliver ==
    /\ r_pc \in {"done", "raised"}
    /\ reconciled + 1 < MaxDeliveries
    /\ reconciled' = reconciled + 1
    /\ r_pc' = "start"
    /\ bill_data' = << >>
    /\ comparison_key' = 0
    /\ r_calls' = << >>
    /\ r_reads' = << >>
    /\ r_log' = << >>
    /\ r_returned' = "running"
    /\ r_faults' = << >>
    /\ r_text' = "none"
    /\ UNCHANGED << r_event, paging, comparison_ids, u_log, s3_events, delivered >>
    /\ UNCHANGED << svars, vvars, ivars, cvars, qvars, fvars >>

RedeliveryNext ==
    \/ ReconciliationNext
    \/ Redeliver

SpecRedelivery == ReconciliationInit /\ [][RedeliveryNext]_vars

\* C28 (as stated): however often a handoff is delivered, the result store
\* holds at most one result object for its job id
C28_OneResultPerJob ==
    \A j \in JobIds : Cardinality({ o \in result_store : o.job_id = j }) <= 1

-----------------------------------------------------------------------------
(***************************************************************************)
(* lambda4.py: lambda_handler, the result retrieval interface              *)
(***************************************************************************)
MaxRequests == 2
MaxResults == 2

Requests == 1 .. MaxRequests

\* the jobId query parameter: a job id, or "" when it is missing or empty
JobParams == JobIds \cup {""}

\* faulty variant of StatusCode: an empty listing has a status of its own
StatusCodePerSituation(reason) ==
    CASE reason = "missing_job_id" -> 400
      [] reason = "no_files" -> 204
      [] reason = "no_match" -> 404
      [] reason = "not_ready" -> 404
      [] reason = "error" -> 500
      [] reason = "body" -> 200

\* lines 18-22, 28-32, 54-58, 68-72 and 75-89: the statusCode of each response
StatusCode(reason) ==
    CASE reason = "missing_job_id" -> 400
      [] reason = "no_files" -> 404
      [] reason = "no_match" -> 404
      [] reason = "not_ready" -> 404
      [] reason = "error" -> 500
      [] reason = "body" -> 200

Request(pc, job, listing, matched, status, reason) ==
    [pc |-> pc, job |-> job, listing |-> listing, matched |-> matched,
     status |-> status, reason |-> reason]

NotStarted == Request("idle", "", {}, 0, 0, "")

Event(ev, req, job, status, left, error) ==
    [ev |-> ev, req |-> req, job |-> job, status |-> status, left |-> left,
     error |-> error]

StoredKeys == { o.key : o \in result_store }

StoredFor(job) == { o \in result_store : o.job_id = job }

\* the objects of `store` that carry `job`, the one under `key` aside
OthersFor(store, job, key) ==
    Cardinality({ o \in store : o.job_id = job /\ o.key # key })

\* the response of request r, with how many objects other than the matched
\* one carry its job id at that moment
Respond(r, job, status, reason, store, error) ==
    /\ q_req' = [q_req EXCEPT ![r] = Request("done", job, @.listing, @.matched,
                                              status, reason)]
    /\ q_hist' = Append(q_hist,
                        Event("return", r, job, status,
                              OthersFor(store, job, q_req[r].matched), error))

\* lines 13-32: the parameter check and s3.list_objects_v2
StartRetrieval(r) ==
    /\ q_req[r].pc = "idle"
    /\ \E job \in JobParams, ok \in BOOLEAN :
         IF job = ""
         THEN /\ ok
              /\ Respond(r, job, StatusCode("missing_job_id"), "missing_job_id",
                         result_store, FALSE)
         ELSE IF ~ ok
         THEN /\ q_req' = [q_req EXCEPT ![r] = Request("done", job, {}, 0,
                                                       StatusCode("error"), "error")]
              /\ q_hist' = q_hist \o << Event("start", r, job, 0, 0, FALSE),
                                        Event("return", r, job, StatusCode("error"),
                                              OthersFor(result_store, job, 0), TRUE) >>
         ELSE IF result_store = {}
         THEN /\ q_req' = [q_req EXCEPT ![r] = Request("done", job, {}, 0,
                                                       StatusCode("no_files"), "no_files")]
              /\ q_hist' = q_hist \o << Event("start", r, job, 0, 0, FALSE),
                                        Event("return", r, job, StatusCode("no_files"), 0, FALSE) >>
         ELSE /\ q_req' = [q_req EXCEPT ![r] = Request("listed", job, StoredKeys, 0, 0, "")]
              /\ q_hist' = Append(q_hist, Event("start", r, job, 0, 0, FALSE))
    /\ UNCHANGED << svars, qframe >>

\* lines 36-58: head_object on the listed keys until one carries the job id;
\* head_object on a key that is gone, like any refused call, is a ClientError
MatchJobId(r) ==
    /\ q_req[r].pc = "listed"
    /\ LET job == q_req[r].job
           gone == q_req[r].listing \ StoredKeys
           matches == { o.key : o \in { x \in StoredFor(job) : x.key \in q_req[r].listing } }
       IN \/ \E k \in matches :
               /\ q_req' = [q_req EXCEPT ![r] = Request("matched", job, @.listing, k, 0, "")]
               /\ UNCHANGED q_hist
          \/ /\ matches = {}
             /\ gone = {}
             /\ Respond(r, job, StatusCode("no_match"), "no_match", result_store, FALSE)
          \/ Respond(r, job, StatusCode("error"), "error", result_store, TRUE)
    /\ UNCHANGED << svars, qframe >>

\* lines 62-64 and 75-89: get_object; NoSuchKey is answered with 404
GetResult(r) ==
    /\ q_req[r].pc = "matched"
    /\ LET job == q_req[r].job
       IN \/ /\ q_req[r].matched \in StoredKeys
             /\ q_req' = [q_req EXCEPT ![r].pc = "got"]
             /\ UNCHANGED q_hist
          \/ /\ q_req[r].matched \notin StoredKeys
             /\ Respond(r, job, StatusCode("not_ready"), "not_ready", result_store, FALSE)
          \/ Respond(r, job, StatusCode("error"), "error", result_store, TRUE)
    /\ UNCHANGED << svars, qframe >>

\* faulty variant of DeletesMatched: the matched object is left in place
DeletesMatchedNever(ok) == FALSE

\* line 66: whether the matched object is deleted before the response
DeletesMatched(ok) == ok

\* lines 66-72: delete_object, then the body with status 200
DeleteResult(r) ==
    /\ q_req[r].pc = "got"
    /\ \E ok \in BOOLEAN :
         LET job == q_req[r].job
             store == IF DeletesMatched(ok)
                      THEN { o \in result_store : o.key # q_req[r].matched }
                      ELSE result_store
         IN /\ result_store' = store
            /\ IF ok THEN Respond(r, job, StatusCode("body"), "body", store, FALSE)
               ELSE Respond(r, job, StatusCode("error"), "error", store, TRUE)
    /\ UNCHANGED << source_bucket, ddb, qframe >>

\* index.py lines 287-293 and 500-506: reconciliation stores a result object
\* whose metadata carries the job id of its event
StoreResult ==
    /\ comparison_ids < MaxResults
    /\ \E job \in JobIds :
         /\ comparison_ids' = comparison_ids + 1
         /\ result_store' = result_store \cup
              { ResultObject(comparison_ids', job, "comparison", "T1", NoMessage, "parsed") }
         /\ q_hist' = Append(q_hist, Event("write", 0, job, 0, 0, FALSE))
    /\ UNCHANGED << r_pc, r_event, paging, bill_data, comparison_key, r_calls,
                    r_reads, r_log, r_returned, r_faults, r_text >>
    /\ UNCHANGED << source_bucket, ddb, q_req, vvars, ivars, cvars, pvars, fvars >>

RetrievalInit ==
    /\ q_req = [r \in Requests |-> NotStarted]
    /\ q_hist = << >>
    /\ IdleServices
    /\ IdleCoordinator
    /\ IdleReconciliation
    /\ IdleValidation
    /\ IdleInvoker
    /\ IdlePipeline
    /\ IdleHelpers

RetrievalNext ==
    \/ StoreResult
    \/ \E r \in Requests : StartRetrieval(r)
    \/ \E r \in Requests : MatchJobId(r)
    \/ \E r \in Requests : GetResult(r)
    \/ \E r \in Requests : DeleteResult(r)

SpecRetrieval == RetrievalInit /\ [][RetrievalNext]_vars

-----------------------------------------------------------------------------
(***************************************************************************)
(* Properties of the retrieval interface                                   *)
(***************************************************************************)
Positions == 1 .. Len(q_hist)

\* a result for `job` was written between positions p and t
WrittenBetween(job, p, t) ==
    \E w \in Positions : p < w /\ w < t /\ q_hist[w].ev = "write" /\ q_hist[w].job = job

\* request r2 started at q after the response at p and was answered at t
LaterRetrieval(p, q, t) ==
    /\ p < q /\ q < t
    /\ q_hist[p].ev = "return" /\ q_hist[p].status = 200
    /\ q_hist[q].ev = "start" /\ q_hist[q].job = q_hist[p].job
    /\ q_hist[t].ev = "return" /\ q_hist[t].req = q_hist[q].req
    /\ ~ WrittenBetween(q_hist[p].job, p, t)

\* C20 (as stated): a retrieval that starts after a 200 response for the same
\* job id, with no result for that job id written in between, is answered
\* with 404 unless one of its storage calls was refused
C20_SecondRetrievalNotFound ==
    \A p, q, t \in Positions :
        (LaterRetrieval(p, q, t) /\ ~ q_hist[t].error) => q_hist[t].status = 404

\* C20 (amended): the same, provided no result object other than the returned
\* one carried that job id when the first retrieval answered; and then the
\* later retrieval never returns a result, refused storage call or not
C20_SecondRetrievalNotFoundWhenLast ==
    \A p, q, t \in Positions :
        (LaterRetrieval(p, q, t) /\ q_hist[p].left = 0) =>
            /\ q_hist[t].status # 200
            /\ ~ q_hist[t].error => q_hist[t].status = 404

\* a result was delivered with status 200 while an object of another job id
\* stayed behind, and a later retrieval for the delivered job id found no match
C20_Witness ==
    \E p, q, t \in Positions :
        /\ LaterRetrieval(p, q, t)
        /\ q_hist[p].left = 0
        /\ q_hist[t].status = 404
        /\ q_req[q_hist[t].req].reason = "no_match"

\* the requests answered with status 200 for the object under `key`
DeliveredTo(key) ==
    { r \in Requests : q_req[r].pc = "done" /\ q_req[r].status = 200
                        /\ q_req[r].matched = key }

\* C21 (as stated): no result object is returned with status 200 by more
\* than one retrieval request, however the requests interleave
C21_DeliveredAtMostOnce ==
    \A k \in 1 .. MaxResults : Cardinality(DeliveredTo(k)) <= 1

\* the three situations of a finished request
Situations == {"no_files", "no_match", "error"}

Finished(r) == q_req[r].pc = "done"

-----------------------------------------------------------------------------
(***************************************************************************)
(* lambda0.py: lambda_handler (upload), and the three stages chained: the  *)
(* object-created notification invokes ingestion, ingestion invokes        *)
(* validation, validation invokes reconciliation.  One invocation of each  *)
(* handler runs at a time; an invocation starts with fresh locals.         *)
(***************************************************************************)
MaxUploads == 1

MaxUploadRequests == 2

\* body['file_name'] and body['file_content'] when the key is absent
MissingName == 0 - 1
MissingContent == "missing"

\* base64 texts: of a one-page, a three-page and a four-page document, and
\* one that b64decode rejects
FileContents == {"", "JVBERi0x", "JVBERi0z", "JVBERi00", "A"}

\* lambda0.py line 33: base64.b64decode raises on a text it cannot decode
Decodable(content) == content \in {"JVBERi0x", "JVBERi0z", "JVBERi00"}

B64Decode(content) ==
    CASE content = "JVBERi0x" -> "%PDF-1"
      [] content = "JVBERi0z" -> "%PDF-3"
      [] content = "JVBERi00" -> "%PDF-4"

\* lambda0.py line 35: file_bytes.count(b'/Type /Page')
PageMarkers(file_bytes) ==
    CASE file_bytes = "%PDF-1" -> 1
      [] file_bytes = "%PDF-3" -> 3
      [] file_bytes = "%PDF-4" -> 4

\* the requests: a body that is no JSON object, or the three fields, each
\* absent, empty or set, and whether the file name ends in .pdf
UploadRequests(contents) ==
    [well_formed : BOOLEAN, file_name : Keys \cup {NoKey, MissingName},
     is_pdf : BOOLEAN, file_content : contents, job_id : JobIds \cup {"", None}]

Uploaded(req, status) ==
    [file_name |-> req.file_name, job_id |-> req.job_id, status |-> status,
     request |-> req]

\* faulty variant of UploadStatus: the page markers are not counted
UploadStatusAnyLength(req, put_ok) ==
    IF ~ req.well_formed THEN 500
    ELSE IF req.file_name = MissingName \/ req.file_content = MissingContent THEN 500
    ELSE IF req.file_name = NoKey \/ req.file_content = "" \/ req.job_id \in {"", None}
    THEN 400
    ELSE IF ~ req.is_pdf THEN 400
    ELSE IF ~ Decodable(req.file_content) THEN 500
    ELSE IF put_ok THEN 200
    ELSE 500

\* lambda0.py lines 11-63: the status the upload is answered with.  A body
\* that does not parse, an absent file_name or file_content key (KeyError), a
\* text b64decode rejects and a refused put_object all reach the except
\* clause; an absent job_id is None (body.get)
UploadStatus(req, put_ok) ==
    IF ~ req.well_formed THEN 500
    ELSE IF req.file_name = MissingName \/ req.file_content = MissingContent THEN 500
    ELSE IF req.file_name = NoKey \/ req.file_content = "" \/ req.job_id \in {"", None}
    THEN 400
    ELSE IF ~ req.is_pdf THEN 400
    ELSE IF ~ Decodable(req.file_content) THEN 500
    ELSE IF PageMarkers(B64Decode(req.file_content)) > 3 THEN 400
    ELSE IF put_ok THEN 200
    ELSE 500

\* faulty variant of UploadMetadata: a fixed job id
UploadMetadataFixed(jid) == "J1"

\* lambda0.py lines 46-51: Metadata={"job_id": job_id}
UploadMetadata(jid) == jid

\* lambda0.py lines 10-63; put_object replaces the object of the same key and
\* the bucket notifies the ingestion handler
UploadRequest(limit, contents) ==
    /\ Len(u_log) < limit
    /\ \E req \in UploadRequests(contents), put_ok \in BOOLEAN :
         LET status == UploadStatus(req, put_ok)
         IN /\ u_log' = Append(u_log, Uploaded(req, status))
            /\ IF status = 200
               THEN /\ source_bucket' = (source_bucket \ ObjectAt(req.file_name))
                         \cup { SourceObject(req.file_name, UploadMetadata(req.job_id),
                                             "application/pdf",
                                             B64Decode(req.file_content)) }
                    /\ s3_events' = Append(s3_events, req.file_name)
               ELSE UNCHANGED << source_bucket, s3_events >>
    /\ UNCHANGED << ddb, result_store, delivered, reconciled >>
    /\ UNCHANGED << vvars, ivars, cvars, rvars, qvars, fvars >>

\* the uploads of the chained stages: an empty or a one-page document
Upload == UploadRequest(MaxUploads, {"", "JVBERi0x"})

\* the uploads of the upload interface on its own
UploadAny == UploadRequest(MaxUploadRequests, FileContents \cup {MissingContent})

UploadInit ==
    /\ IdlePipeline
    /\ IdleServices
    /\ IdleCoordinator
    /\ IdleValidation
    /\ IdleInvoker
    /\ IdleReconciliation
    /\ IdleRetrieval
    /\ IdleHelpers

UploadNext == UploadAny

SpecUpload == UploadInit /\ [][UploadNext]_vars

-----------------------------------------------------------------------------
(***************************************************************************)
(* Properties of the upload interface (SpecUpload)                         *)
(***************************************************************************)
\* the step answers one upload
Answers == Len(u_log') = Len(u_log) + 1

\* the upload the step answers, and its request
Answer == u_log'[Len(u_log')]
Asked == Answer.request

\* C23: a step that answers an upload with status 200 leaves under the file
\* name exactly one object, whose content type is application/pdf, whose
\* body is the decoded file content and whose metadata job_id is the job id
\* of the request, and leaves the objects of other keys as they were
C23_AcceptedUploadStored ==
    [][(Answers /\ Answer.status = 200) =>
         /\ { o \in source_bucket' : o.key = Asked.file_name }
              = { [key |-> Asked.file_name, job_id |-> Asked.job_id,
                   content_type |-> "application/pdf",
                   body |-> B64Decode(Asked.file_content)] }
         /\ { o \in source_bucket' : o.key # Asked.file_name }
              = { o \in source_bucket : o.key # Asked.file_name }]_vars

\* two uploads under the same file name were accepted, the second with job
\* id J2 and a three-page body, and the object stored is the second one
C23_Witness ==
    /\ Len(u_log) = 2
    /\ u_log[1].status = 200
    /\ u_log[2].status = 200
    /\ u_log[1].file_name = u_log[2].file_name
    /\ u_log[1].job_id = "J1"
    /\ u_log[2].job_id = "J2"
    /\ \E o \in source_bucket : o.job_id = "J2" /\ o.body = "%PDF-3"

\* every field of the request is there
AllPresent(req) ==
    /\ req.well_formed
    /\ req.file_name # MissingName
    /\ req.file_content # MissingContent
    /\ req.job_id # None

SomeEmpty(req) == req.file_name = NoKey \/ req.file_content = "" \/ req.job_id = ""

\* the three rejections: an empty field, a file name that does not end in
\* .pdf, more than three page markers in the decoded content
RejectedByValidation(req) ==
    /\ AllPresent(req)
    /\ \/ SomeEmpty(req)
       \/ ~ req.is_pdf
       \/ (Decodable(req.file_content)
             /\ PageMarkers(B64Decode(req.file_content)) > 3)

\* C24: a step that answers an upload of one of the three rejected kinds
\* answers it with status 400 and leaves the object store unchanged
C24_RejectedUploadStoresNothing ==
    [][(Answers /\ RejectedByValidation(Asked)) =>
         (Answer.status = 400 /\ source_bucket' = source_bucket
            /\ s3_events' = s3_events)]_vars

\* after an accepted upload, a four-page document under a .pdf name with all
\* fields set was rejected and the accepted object is still the only one
C24_Witness ==
    /\ Len(u_log) = 2
    /\ u_log[1].status = 200
    /\ u_log[2].status = 400
    /\ u_log[2].request.is_pdf
    /\ ~ SomeEmpty(u_log[2].request)
    /\ u_log[2].request.file_content = "JVBERi00"
    /\ Cardinality(source_bucket) = 1

\* a required field of a request whose body parses is absent or empty
FieldAbsentOrEmpty(req) ==
    /\ req.well_formed
    /\ \/ req.file_name \in {MissingName, NoKey}
       \/ req.file_content \in {MissingContent, ""}
       \/ req.job_id \in {None, ""}

\* C25 (as stated): a step that answers an upload with an absent or empty
\* required field answers it with a 4xx status
C25_MissingFieldIsClientError ==
    [][(Answers /\ FieldAbsentOrEmpty(Asked)) =>
         (Answer.status >= 400 /\ Answer.status <= 499)]_vars

\* lambda1.py lines 454-499: an invocation for one notification
S3EventNotification ==
    /\ c_pc \in {"idle", "returned"}
    /\ s3_events # << >>
    /\ records' = << Head(s3_events) >>
    /\ s3_events' = Tail(s3_events)
    /\ c_pc' = "start"
    /\ idx' = 1
    /\ table_id' = None
    /\ job_id' = None
    /\ parsed_any_page' = FALSE
    /\ page_results' = << >>
    /\ data' = << >>
    /\ results' = << >>
    /\ cooldowns' = 0
    /\ clog' = << >>
    /\ UNCHANGED << minted, placeholders, chain_queue >>
    /\ UNCHANGED << u_log, delivered, reconciled >>
    /\ UNCHANGED << svars, vvars, ivars, rvars, qvars, fvars >>

\* the rows of `S` as a scan returns them, in key order
RECURSIVE ScanOrder(_)
ScanOrder(S) ==
    IF S = {} THEN << >>
    ELSE LET first == CHOOSE r \in S : \A x \in S : r.code <= x.code
         IN << first >> \o ScanOrder(S \ {first})

\* lambda2.py lines 83-120: get_cpt_codes_for_table_id
GetCptCodes(tid) ==
    LET rows == ScanOrder(RowsOf(ddb, "items", tid))
    IN [i \in 1 .. Len(rows) |->
          [code |-> rows[i].code,
           description |-> IF rows[i].description = None THEN ""
                           ELSE rows[i].description]]

\* lambda2.py lines 123-163: get_icd_entries_for_table_id
GetIcdEntries(tid) ==
    LET rows == ScanOrder(RowsOf(ddb, "icd", tid))
    IN [i \in 1 .. Len(rows) |->
          [code |-> rows[i].code, description |-> rows[i].description]]

\* lambda2.py lines 341-363: an invocation with the payload ingestion sent;
\* the rows are the ones the two readers return
InvokeValidation ==
    /\ v_pc \in {"idle", "done"}
    /\ delivered < Len(chain_queue)
    /\ delivered' = delivered + 1
    /\ LET event == chain_queue[delivered']
       IN /\ event_table_id' = event.table_id
          /\ event_job_id' = event.job_id
          /\ icd_entries' = GetIcdEntries(event.table_id)
          /\ med_bill_rows' = GetCptCodes(event.table_id)
    /\ icd_reference' \in SUBSET CodesOf(icd_entries')
    /\ cpt_reference' \in SUBSET CodesOf(med_bill_rows')
    /\ v_pc' = "start"
    /\ all_valid' = TRUE
    /\ issues' = << >>
    /\ cpt_icd_issue' = NoMsg
    /\ cpt_codes' = << >>
    /\ icd_for_justification' = << >>
    /\ icd_items_for_validation' = << >>
    /\ icd_reply' = NoReply
    /\ icd_results' = << >>
    /\ cpt_items_for_validation' = << >>
    /\ cpt_reply' = NoReply
    /\ cpt_results' = << >>
    /\ justified' = "not_called"
    /\ bedrock_calls' = << >>
    /\ returned' = "running"
    /\ UNCHANGED << handoffs, u_log, s3_events, reconciled >>
    /\ UNCHANGED << svars, ivars, cvars, rvars, qvars, fvars >>

\* lambda3/index.py lines 315-324 and 453-458: an invocation with the
\* payload validation sent
InvokeReconciliation ==
    /\ r_pc \in {"idle", "done", "raised"}
    /\ reconciled < Len(handoffs)
    /\ reconciled' = reconciled + 1
    /\ LET event == handoffs[reconciled']
       IN r_event' = [table_id |-> event.table_id, job_id |-> event.job_id,
                      validation |-> << event.validation >>]
    /\ paging' \in Pagings
    /\ r_pc' = "start"
    /\ bill_data' = << >>
    /\ comparison_key' = 0
    /\ r_calls' = << >>
    /\ r_reads' = << >>
    /\ r_log' = << >>
    /\ r_returned' = "running"
    /\ r_faults' = << >>
    /\ r_text' = "none"
    /\ UNCHANGED << comparison_ids, u_log, s3_events, delivered >>
    /\ UNCHANGED << svars, vvars, ivars, cvars, qvars, fvars >>

PipelineInit ==
    /\ IdlePipeline
    /\ IdleServices
    /\ IdleCoordinator
    /\ IdleValidation
    /\ IdleInvoker
    /\ IdleReconciliation
    /\ IdleRetrieval
    /\ IdleHelpers

PipelineNext ==
    \/ Upload
    \/ S3EventNotification
    \/ FetchDocument
    \/ ExtractDocument
    \/ PersistDocument
    \/ ChainNextStage
    \/ DeleteSource
    \/ NextRecord
    \/ InvokeValidation
    \/ IcdValidation
    \/ CptJustification
    \/ CptReferenceValidation
    \/ InvokeReconciliation
    \/ ReconcileStart
    \/ WriteInvalidResult
    \/ BuildBillData
    \/ GetLatestPolicy
    \/ CompareBillToPolicy
    \/ CleanupAllData

SpecPipeline == PipelineInit /\ [][PipelineNext]_vars

-----------------------------------------------------------------------------
(***************************************************************************)
(* Properties of the chained stages (SpecPipeline)                         *)
(***************************************************************************)
\* the uploads answered with status 200
Accepted == { i \in 1 .. Len(u_log) : u_log[i].status = 200 }

\* the payload ingestion sent for `tid`, and the one validation sent
ChainedFor(tid) == { i \in 1 .. Len(chain_queue) : chain_queue[i].table_id = tid }
HandedOffFor(tid) == { i \in 1 .. Len(handoffs) : handoffs[i].table_id = tid }

\* C16: every payload ingestion sends carries the job id of an accepted
\* upload of that file name; every payload validation sends carries the job
\* id of the ingestion payload of the same table_id; a running validation or
\* reconciliation holds the job id of the payload it was invoked with; and
\* every result object, normal or invalid-bill, has as its job_id metadata
\* the job id of the payloads of its table_id
C16_JobIdPropagated ==
    /\ \A i \in 1 .. Len(chain_queue) :
         \E u \in Accepted :
            /\ u_log[u].file_name = chain_queue[i].object_key
            /\ u_log[u].job_id = chain_queue[i].job_id
    /\ v_pc # "idle" => event_job_id = chain_queue[delivered].job_id
    /\ \A i \in 1 .. Len(handoffs) :
         /\ ChainedFor(handoffs[i].table_id) # {}
         /\ \A k \in ChainedFor(handoffs[i].table_id) :
              handoffs[i].job_id = chain_queue[k].job_id
    /\ r_pc # "idle" => r_event.job_id = handoffs[reconciled].job_id
    /\ \A o \in result_store :
         /\ o.kind \in {"comparison", "invalid_bill"}
         /\ ChainedFor(o.table_id) # {}
         /\ \A k \in ChainedFor(o.table_id) : o.job_id = chain_queue[k].job_id
         /\ \E u \in Accepted : o.job_id = u_log[u].job_id

\* an upload with job id J2 went through the three stages and its normal
\* result object is stored
C16_Witness ==
    /\ \E u \in Accepted : u_log[u].job_id = "J2"
    /\ r_pc = "done"
    /\ \E o \in result_store :
         /\ o.kind = "comparison"
         /\ o.job_id = "J2"
         /\ HandedOffFor(o.table_id) # {}

\* the bill of `tid`: one line item and one diagnosis, each with a
\* description and a reference entry, each confirmed by the model, and the
\* item justified; no call of ingestion or of validation failed
Qualifying(tid) ==
    /\ c_pc = "returned"
    /\ \A i \in 1 .. Len(clog) : clog[i].ok
    /\ chain_queue # << >>
    /\ chain_queue[Len(chain_queue)].table_id = tid
    /\ v_pc = "done"
    /\ event_table_id = tid
    /\ Len(med_bill_rows) = 1
    /\ Len(icd_entries) = 1
    /\ Truthy(med_bill_rows[1].description)
    /\ Truthy(icd_entries[1].description)
    /\ med_bill_rows[1].code \in cpt_reference
    /\ icd_entries[1].code \in icd_reference
    /\ icd_reply.kind = "list"
    /\ icd_reply.tokens = << YesToken >>
    /\ cpt_reply.kind = "list"
    /\ cpt_reply.tokens = << YesToken >>
    /\ justified = "True"

\* reconciliation of `tid` has ended, none of its calls was refused and a
\* parsed policy was there
ReconciledCleanly(tid) ==
    /\ r_pc \in {"done", "raised"}
    /\ r_event.table_id = tid
    /\ r_faults = << >>
    /\ r_pc = "done" => r_returned.reason # "no_policy"

\* C19 (as stated): a qualifying bill gets a true verdict, and once its
\* reconciliation has ended with every call answered, a result object with
\* its job id is stored and no row of its table_id is left in the tables
C19_EndToEnd ==
    \A n \in 1 .. minted :
        Qualifying(TableId(n)) =>
            /\ returned = TRUE
            /\ ReconciledCleanly(TableId(n)) =>
                 /\ \E o \in result_store :
                      /\ o.table_id = TableId(n)
                      /\ o.job_id = event_job_id
                 /\ \A r \in ddb : r.table_id # TableId(n)

\* the stage is at work on rows of `tid`
IngestionWrites(tid) == table_id = tid /\ c_pc \in {"extract", "persist"}
ValidationReads(tid) == event_table_id = tid /\ v_pc \in {"start", "cpt", "cptref"}
ReconciliationActs(tid) ==
    /\ r_event # << >>
    /\ r_event.table_id = tid
    /\ r_pc \in {"start", "invalid", "build", "policy", "compare", "cleanup"}

\* C29: ingestion has issued its last write for a table_id before it sends
\* the payload for it, so validation never runs while ingestion can still
\* write; validation has finished before it sends its payload, so
\* reconciliation never runs while validation still reads; and no two of the
\* three stages are at work on the same table_id in any state
C29_OneStagePerTableId ==
    /\ \A i \in 1 .. Len(chain_queue) : ~ IngestionWrites(chain_queue[i].table_id)
    /\ \A i \in 1 .. Len(handoffs) : ~ ValidationReads(handoffs[i].table_id)
    /\ \A n \in 1 .. minted :
         LET tid == TableId(n)
         IN /\ ~ (IngestionWrites(tid) /\ ValidationReads(tid))
            /\ ~ (ValidationReads(tid) /\ ReconciliationActs(tid))
            /\ ~ (IngestionWrites(tid) /\ ReconciliationActs(tid))

\* validation reads the rows of T1 while ingestion, past its writes, has yet
\* to delete the uploaded object
C29_Witness ==
    /\ ValidationReads("T1")
    /\ table_id = "T1"
    /\ c_pc = "delete"
    /\ RowsOf(ddb, "bill", "T1") # {}

-----------------------------------------------------------------------------
(***************************************************************************)
(* lambda1.py: _to_number                                                  *)
(***************************************************************************)
\* longest string drawn from the alphabet
MaxChars == 3

\* Python values by type; a float is num / 10^scale with no trailing zero
\* in its fraction
NoneValue == [kind |-> "none"]
StrValue(chars) == [kind |-> "str", chars |-> chars]
IntValue(n) == [kind |-> "int", num |-> n]
BoolValue(b) == [kind |-> "bool", val |-> b]

RECURSIVE Float(_, _)
Float(num, scale) ==
    IF scale > 0 /\ num % 10 = 0 THEN Float(num \div 10, scale - 1)
    ELSE [kind |-> "float", num |-> num, scale |-> scale]

DigitChars == {"0", "1", "2", "3", "4", "5", "6", "7", "8", "9"}

DigitValue(c) ==
    CASE c = "0" -> 0 [] c = "1" -> 1 [] c = "2" -> 2 [] c = "3" -> 3
      [] c = "4" -> 4 [] c = "5" -> 5 [] c = "6" -> 6 [] c = "7" -> 7
      [] c = "8" -> 8 [] c = "9" -> 9

RECURSIVE DigitsValue(_)
DigitsValue(s) ==
    IF s = << >> THEN 0
    ELSE DigitsValue(SubSeq(s, 1, Len(s) - 1)) * 10 + DigitValue(s[Len(s)])

\* float(text) for a text the pattern has matched: an optional sign, digits,
\* and a fraction
FloatOfText(t) ==
    LET body == IF t[1] \in {"-", "+"} THEN Tail(t) ELSE t
        dots == { i \in 1 .. Len(body) : body[i] = "." }
        dot == IF dots = {} THEN Len(body) + 1 ELSE CHOOSE i \in dots : TRUE
        whole == SubSeq(body, 1, dot - 1)
        fraction == SubSeq(body, dot + 1, Len(body))
        magnitude == DigitsValue(whole \o fraction)
    IN Float(IF t[1] = "-" THEN 0 - magnitude ELSE magnitude, Len(fraction))

\* where the run of digits that starts at position j ends (first position
\* after it)
RECURSIVE DigitsEnd(_, _)
DigitsEnd(s, j) ==
    IF j <= Len(s) /\ s[j] \in DigitChars THEN DigitsEnd(s, j + 1) ELSE j

\* line 178, _money_re = [-+]?\d*\.?\d+ tried at position i: the first
\* position after the match, or 0. A sign is taken if there is one; the
\* digits are taken greedily; a dot is taken only if a digit follows it, and
\* otherwise the match is the digits before it, the last of them given back
\* to \d+.
MatchEnd(s, i) ==
    LET j == IF s[i] \in {"-", "+"} THEN i + 1 ELSE i
        k == DigitsEnd(s, j)
    IN IF k <= Len(s) /\ s[k] = "." /\ DigitsEnd(s, k + 1) > k + 1
       THEN DigitsEnd(s, k + 1)
       ELSE IF k > j THEN k
       ELSE 0

\* _money_re.search: the leftmost match, or << >>
Search(s) ==
    LET starts == { i \in 1 .. Len(s) : MatchEnd(s, i) # 0 }
    IN IF starts = {} THEN << >>
       ELSE LET i == CHOOSE a \in starts : \A b \in starts : a <= b
            IN SubSeq(s, i, MatchEnd(s, i) - 1)

\* x.replace(",", "")
WithoutCommas(s) == SelectSeq(s, LAMBDA c : c # ",")

\* float(x) of an int, a float or a bool
FloatOf(x) ==
    CASE x.kind = "int" -> Float(x.num, 0)
      [] x.kind = "bool" -> Float(IF x.val THEN 1 ELSE 0, 0)
      [] x.kind = "float" -> x

\* lines 181-194; isinstance(x, (int, float)) holds of a bool as well
_to_number(x) ==
    IF x.kind = "none" THEN NoneValue
    ELSE IF x.kind \in {"int", "float", "bool"} THEN FloatOf(x)
    ELSE IF x.kind = "str"
    THEN LET m == Search(WithoutCommas(x.chars))
         IN IF m # << >> THEN FloatOfText(m) ELSE NoneValue
    ELSE NoneValue

\* the characters strings are drawn from
Alphabet == {"$", ",", ".", "-", "0", "1", "a"}

RECURSIVE StringsUpTo(_)
StringsUpTo(n) ==
    IF n = 0 THEN { << >> }
    ELSE LET shorter == StringsUpTo(n - 1)
         IN shorter \cup { Append(s, c) : s \in shorter, c \in Alphabet }

\* the values a field of the extracted document can hold
NumberArguments ==
    { StrValue(s) : s \in StringsUpTo(MaxChars) }
    \cup { StrValue(<< "$", "1", ",", "2", "3", "4", ".", "5", "0" >>),
           StrValue(<< "n", "/", "a" >>),
           StrValue(<< "1", "2", ".", "5", " ", "+", "3" >>) }
    \cup { IntValue(n) : n \in -1 .. 2 }
    \cup { Float(n, 1) : n \in {-5, 0, 5, 15} }
    \cup { BoolValue(b) : b \in BOOLEAN }
    \cup { NoneValue, [kind |-> "list", elems |-> << >>] }

ToNumber ==
    /\ fn_pc = "called"
    /\ fn_res' = << _to_number(fn_arg[1]) >>
    /\ fn_pc' = "returned"
    /\ UNCHANGED fn_arg
    /\ UNCHANGED << vvars, ivars, svars, cvars, rvars, qvars, pvars >>

CoercionInit ==
    /\ fn_pc = "called"
    /\ fn_arg \in { << x >> : x \in NumberArguments }
    /\ fn_res = << >>
    /\ IdleServices
    /\ IdleCoordinator
    /\ IdleValidation
    /\ IdleInvoker
    /\ IdleReconciliation
    /\ IdleRetrieval
    /\ IdlePipeline

CoercionNext == ToNumber

SpecCoercion == CoercionInit /\ [][CoercionNext]_vars

(***************************************************************************)
(* Properties of _to_number                                                *)
(***************************************************************************)
HasDigit(s) == \E i \in 1 .. Len(s) : s[i] \in DigitChars

IsZero(y) == y.kind = "float" /\ y.num = 0

\* C32 (as stated): a number is returned as is; a string with a digit gives
\* a number, "$1,234.50" gives 1234.5, and a string without a digit gives
\* absent; a value of any other type gives absent; zero is returned only for
\* a number that is zero or a string whose numeric substring is made of zeros
C32_UnparseableIsNeverZero ==
    fn_pc = "returned" =>
        LET x == fn_arg[1]
            y == fn_res[1]
        IN /\ x.kind = "int" => y = Float(x.num, 0)
           /\ x.kind = "float" => y = x
           /\ x.kind = "str" =>
                /\ HasDigit(x.chars) => y.kind = "float"
                /\ ~ HasDigit(x.chars) => y = NoneValue
                /\ x.chars = << "$", "1", ",", "2", "3", "4", ".", "5", "0" >> =>
                     y = Float(12345, 1)
           /\ x.kind \notin {"int", "float", "str"} => y = NoneValue
           /\ IsZero(y) =>
                \/ x.kind \in {"int", "float"} /\ x.num = 0
                \/ x.kind = "str" /\ \E i \in 1 .. Len(x.chars) : x.chars[i] = "0"

-----------------------------------------------------------------------------
(***************************************************************************)
(* lambda1.py: _clean_for_ddb and _put_safe                                *)
(***************************************************************************)
\* deepest nesting of the values drawn, and longest list among them
MaxDepth == 2
MaxElems == 1

List(elems) == [kind |-> "list", elems |-> elems]
Dict(fields) == [kind |-> "dict", fields |-> fields]
Decimal(n) == [kind |-> "decimal", num |-> n]

\* Decimal(str(True)) raises decimal.InvalidOperation
RaisedValue == [kind |-> "raised"]

EmptyValues == { NoneValue, StrValue(<< >>) }

\* lines 212-228 for the values _clean_for_ddb passes on: an int or a float
\* becomes Decimal(str(n)); a bool is an int whose str() is no number
_to_decimal(n) ==
    IF n.kind = "bool" THEN RaisedValue ELSE Decimal(n.num)

\* lines 231-264; an exception raised for a value inside leaves the call
RECURSIVE _clean_for_ddb(_)
_clean_for_ddb(obj) ==
    IF obj.kind = "dict"
    THEN LET cleaned == [k \in DOMAIN obj.fields |-> _clean_for_ddb(obj.fields[k])]
             out == { k \in DOMAIN cleaned : cleaned[k] \notin EmptyValues }
         IN IF \E k \in DOMAIN cleaned : cleaned[k] = RaisedValue THEN RaisedValue
            ELSE Dict([k \in out |-> cleaned[k]])
    ELSE IF obj.kind = "list"
    THEN LET cleaned == [i \in 1 .. Len(obj.elems) |-> _clean_for_ddb(obj.elems[i])]
         IN IF \E i \in 1 .. Len(cleaned) : cleaned[i] = RaisedValue THEN RaisedValue
            ELSE List(SelectSeq(cleaned, LAMBDA x : x \notin EmptyValues))
    ELSE IF obj.kind \in {"int", "bool"} THEN _to_decimal(obj)
    ELSE obj

\* faulty variant of SanitizedItem: the rows of the batch are written as built
SanitizedItemButBatch(tbl, item) ==
    IF tbl = "items" THEN item ELSE _clean_for_ddb(item)

\* lines 636, 648, 671, 716 (_put_safe, lines 274-275) and line 694: what is
\* handed to put_item for a record of each table
SanitizedItem(tbl, item) == _clean_for_ddb(item)

\* values an attribute can hold that have no value nested in them
Scalars ==
    { NoneValue, StrValue(<< >>), StrValue(<< "a" >>), IntValue(1), BoolValue(TRUE) }

RECURSIVE ListsUpTo(_, _)
ListsUpTo(S, n) ==
    IF n = 0 THEN { << >> }
    ELSE LET shorter == ListsUpTo(S, n - 1)
         IN shorter \cup { Append(s, x) : s \in shorter, x \in S }

\* the values nested at most d deep
RECURSIVE ValuesAt(_)
ValuesAt(d) ==
    IF d = 0 THEN Scalars
    ELSE LET inner == ValuesAt(d - 1)
         IN inner
            \cup { List(s) : s \in ListsUpTo(inner, MaxElems) }
            \cup { Dict(<< >>) }
            \cup { Dict([k \in {"k"} |-> x]) : x \in inner }

\* the records handed to _put_safe: an attribute with nested values, one with
\* a scalar, either of them possibly missing
Items ==
    LET nested == ValuesAt(MaxDepth)
    IN { Dict(<< >>) }
       \cup { Dict([k \in {"description"} |-> x]) : x \in nested }
       \cup { Dict([k \in {"bill"} |-> y]) : y \in Scalars }
       \cup { Dict([k \in {"description", "bill"} |->
                      IF k = "description" THEN x ELSE y]) :
                x \in nested, y \in Scalars }

\* lines 267-276 and 693-695: the record is cleaned and written
PutSafe ==
    /\ fn_pc = "called"
    /\ \E i \in 1 .. Len(Tables) :
         LET item_clean == SanitizedItem(Tables[i], fn_arg[1])
         IN IF item_clean = RaisedValue
            THEN /\ fn_pc' = "raised"
                 /\ UNCHANGED << fn_res, ddb >>
            ELSE /\ ddb' = ddb \cup { [tbl |-> Tables[i], item |-> item_clean] }
                 /\ fn_res' = << item_clean >>
                 /\ fn_pc' = "returned"
    /\ UNCHANGED << fn_arg, source_bucket, result_store >>
    /\ UNCHANGED << vvars, ivars, cvars, rvars, qvars, pvars >>

\* _clean_for_ddb called on what it returned
CleanAgain ==
    /\ fn_pc = "returned"
    /\ fn_res' = Append(fn_res, _clean_for_ddb(fn_res[1]))
    /\ fn_pc' = "again"
    /\ UNCHANGED << fn_arg, svars >>
    /\ UNCHANGED << vvars, ivars, cvars, rvars, qvars, pvars >>

SanitizationInit ==
    /\ fn_pc = "called"
    /\ fn_arg \in { << x >> : x \in Items }
    /\ fn_res = << >>
    /\ IdleServices
    /\ IdleCoordinator
    /\ IdleValidation
    /\ IdleInvoker
    /\ IdleReconciliation
    /\ IdleRetrieval
    /\ IdlePipeline

SanitizationNext ==
    \/ PutSafe
    \/ CleanAgain

SpecSanitization == SanitizationInit /\ [][SanitizationNext]_vars

(***************************************************************************)
(* Properties of the sanitization                                          *)
(***************************************************************************)
\* no None and no "" is the value of a key or an element of a list, at any depth
RECURSIVE NoEmptyValue(_)
NoEmptyValue(v) ==
    IF v.kind = "dict"
    THEN \A k \in DOMAIN v.fields :
            v.fields[k] \notin EmptyValues /\ NoEmptyValue(v.fields[k])
    ELSE IF v.kind = "list"
    THEN \A i \in 1 .. Len(v.elems) :
            v.elems[i] \notin EmptyValues /\ NoEmptyValue(v.elems[i])
    ELSE TRUE

\* the number of scalars in v that are neither None nor ""
RECURSIVE CountKept(_)
RECURSIVE CountFields(_, _)
CountFields(f, K) ==
    IF K = {} THEN 0
    ELSE LET k == CHOOSE x \in K : TRUE
         IN CountKept(f[k]) + CountFields(f, K \ {k})

CountKept(v) ==
    IF v.kind = "dict" THEN CountFields(v.fields, DOMAIN v.fields)
    ELSE IF v.kind = "list"
    THEN CountFields(v.elems, 1 .. Len(v.elems))
    ELSE IF v \in EmptyValues THEN 0
    ELSE 1

\* C33: every record written to a table holds no None and no "" at any
\* depth; what the cleaning returns holds none either and has lost no other
\* scalar; and cleaning the cleaned record returns it unchanged
C33_SanitizedEverywhereAndIdempotent ==
    /\ \A row \in ddb : NoEmptyValue(row.item)
    /\ fn_pc \in {"returned", "again"} =>
         /\ NoEmptyValue(fn_res[1])
         /\ CountKept(fn_res[1]) = CountKept(fn_arg[1])
         /\ \E row \in ddb : row.item = fn_res[1]
    /\ fn_pc = "again" => fn_res[2] = fn_res[1]

\* a line item with an empty bill and, in its description, a list that holds
\* a dictionary with an absent value: written and cleaned a second time
C33_Witness ==
    /\ fn_pc = "again"
    /\ fn_arg[1] = Dict([k \in {"description", "bill"} |->
                           IF k = "description"
                           THEN List(<< Dict([j \in {"k"} |-> NoneValue]) >>)
                           ELSE StrValue(<< >>)])
    /\ \E row \in ddb : row.tbl = "items"
    /\ fn_res[1] # fn_arg[1]

-----------------------------------------------------------------------------
(***************************************************************************)
(* Further properties of the validation stage (SpecValidation)             *)
(***************************************************************************)
\* how often `code` is queued for the batch comparison, and how often it is
\* in the justification evidence, with any description and with `desc`
CountQueued(code) ==
    Cardinality({ i \in 1 .. Len(icd_items_for_validation) :
                    icd_items_for_validation[i].code = code })

CountEvidenceFor(code) ==
    Cardinality({ i \in 1 .. Len(icd_for_justification) :
                    icd_for_justification[i].code = code })

CountEvidenceWith(code, desc) ==
    Cardinality({ i \in 1 .. Len(icd_for_justification) :
                    icd_for_justification[i] = [code |-> code, description |-> desc] })

\* the issues the loop over the diagnoses can add for `code`
CountIcdIssues(code) ==
    CountIssue("icd_not_in_reference", CodeArg(code))
        + CountIssue("icd_skipped", CodeArg(code))

\* C34: once the diagnoses are validated, each diagnosis row fell under one
\* case. Reference found and description present: the code is queued once,
\* with both descriptions, and the loop added no issue for it. Reference found
\* and no description: not queued, the reference description is its only
\* evidence, no issue of any kind. Reference missing and description present:
\* not queued, the submitted description is its only evidence, one "not found
\* in reference" issue. Reference missing and no description: not queued, no
\* evidence, one "skipping" issue.
C34_OneOfFourCases ==
    (v_pc \in {"cpt", "cptref", "done"} /\ event_table_id # None) =>
        \A i \in 1 .. Len(icd_entries) :
            LET code == icd_entries[i].code
                desc == icd_entries[i].description
                found == code \in icd_reference
                present == desc # None /\ desc # ""
            IN /\ (found /\ present) =>
                    /\ CountQueued(code) = 1
                    /\ \E j \in 1 .. Len(icd_items_for_validation) :
                         icd_items_for_validation[j] =
                            [code |-> code, icd_desc |-> desc, ref_desc |-> RefDesc(code)]
                    /\ CountIcdIssues(code) = 0
               /\ (found /\ ~ present) =>
                    /\ CountQueued(code) = 0
                    /\ CountEvidenceFor(code) = 1
                    /\ CountEvidenceWith(code, RefDesc(code)) = 1
                    /\ CountIcdIssues(code) = 0
                    /\ CountIssue("icd_mismatch", CodeArg(code)) = 0
               /\ (~ found /\ present) =>
                    /\ CountQueued(code) = 0
                    /\ CountEvidenceFor(code) = 1
                    /\ CountEvidenceWith(code, desc) = 1
                    /\ CountIssue("icd_not_in_reference", CodeArg(code)) = 1
                    /\ CountIssue("icd_skipped", CodeArg(code)) = 0
                    /\ CountIssue("icd_mismatch", CodeArg(code)) = 0
               /\ (~ found /\ ~ present) =>
                    /\ CountQueued(code) = 0
                    /\ CountEvidenceFor(code) = 0
                    /\ CountIssue("icd_skipped", CodeArg(code)) = 1
                    /\ CountIssue("icd_not_in_reference", CodeArg(code)) = 0
                    /\ CountIssue("icd_mismatch", CodeArg(code)) = 0

\* two diagnoses without a reference entry, the first with a description and
\* the second without: the handler has finished
C34_Witness ==
    /\ Done
    /\ Len(icd_entries) = 2
    /\ icd_reference = {}
    /\ icd_entries[1].description = BillDesc
    /\ icd_entries[2].description = None
    /\ Len(icd_for_justification) = 1
    /\ CountIssue("icd_skipped", CodeArg(icd_entries[2].code)) = 1

\* C35 (as stated): once the diagnoses are validated, every diagnosis queued
\* for the batch comparison is in the justification evidence exactly once,
\* with its reference description, whatever the comparison call produced
C35_QueuedDiagnosisAlwaysEvidence ==
    v_pc \in {"cpt", "cptref", "done"} =>
        \A j \in 1 .. Len(icd_items_for_validation) :
            LET item == icd_items_for_validation[j]
            IN /\ CountEvidenceFor(item.code) = 1
               /\ CountEvidenceWith(item.code, item.ref_desc) = 1

\* C36: the handler submits no payload before it ends and exactly one when it
\* has ended, on each of its paths; the payload carries a validation result
\* for the table_id of the event with the issues collected; on the path
\* without table_id and on the path through the except clause the verdict in
\* it is false and the handler returns False, and on the normal path the
\* verdict is the one the handler returns
C36_OneHandoffWithResult ==
    /\ Len(handoffs) <= 1
    /\ (v_pc \in {"start", "cpt", "cptref"}) => handoffs = << >>
    /\ Done =>
         /\ Len(handoffs) = 1
         /\ "validation" \in DOMAIN handoffs[1]
         /\ "all_valid" \in DOMAIN handoffs[1].validation
         /\ handoffs[1].validation.table_id = event_table_id
         /\ handoffs[1].validation.issues = issues
         /\ handoffs[1].validation.all_valid = returned
         /\ (event_table_id = None \/ ExceptPath) =>
              /\ handoffs[1].validation.all_valid = FALSE
              /\ handoffs[1].cpt_codes = << >>

\* the except clause was taken after every comparison had passed: one payload
\* was submitted, with a false verdict
C36_Witness ==
    /\ Done
    /\ ExceptPath
    /\ all_valid = TRUE
    /\ Len(handoffs) = 1
    /\ handoffs[1].validation.all_valid = FALSE

-----------------------------------------------------------------------------
(***************************************************************************)
(* Further properties of the ingestion handler (SpecIngestion)             *)
(***************************************************************************)
\* the entries of the returned list that name `key`
EntriesFor(key) == { j \in 1 .. Len(results) : results[j].key = key }

\* C37 (as stated): the list the handler returns holds one entry per record,
\* in the order of the records; a record whose extraction failed has one
\* entry, a failure entry, and caused one cooldown
C37_OneResultPerRecord ==
    c_pc = "returned" =>
        /\ Len(results) = Len(records)
        /\ \A i \in 1 .. Len(records) :
             /\ results[i].key = records[i]
             /\ Cardinality(EntriesFor(records[i])) = 1
             /\ Failed(i, "extract") =>
                  /\ results[i].parsed_any_page = FALSE
                  /\ results[i].pages = << [parsed |-> FALSE] >>
        /\ cooldowns = Cardinality({ i \in 1 .. Len(records) : Failed(i, "extract") })

-----------------------------------------------------------------------------
(***************************************************************************)
(* Further properties of the reconciliation handler (SpecReconciliation)   *)
(***************************************************************************)
\* C38 (as stated): once the model call of the comparison has failed, the
\* handler has returned, with success = false and without raising; no result
\* object is stored and nothing was purged
C38_ModelFailureReturnsFailure ==
    (r_calls # << >> /\ r_calls[Len(r_calls)] # "ok") =>
        /\ r_pc = "done"
        /\ r_returned.success = FALSE
        /\ comparison_key = 0
        /\ result_store = {}
        /\ r_log = << >>

-----------------------------------------------------------------------------
(***************************************************************************)
(* Properties of the line-item batch (SpecItemisedBill)                    *)
(***************************************************************************)
\* C39 (as stated): once every write of the current document has succeeded,
\* the line-item table holds as many rows with its table_id as the document
\* has line items
C39_OneRowPerLineItem ==
    (c_pc \in {"chain", "delete", "next"} /\ parsed_any_page) =>
        Cardinality(ItemRowsOf(table_id)) = Len(data[1].items)

-----------------------------------------------------------------------------
(***************************************************************************)
(* lambda0.py and lambda1.py: uploads arriving while the ingestion handler *)
(* works through the notifications of earlier uploads                      *)
(***************************************************************************)
\* lambda0.py lines 10-63: uploads of one-page documents
UploadDuringIngestion == UploadRequest(MaxUploadRequests, {"JVBERi0x"})

UploadsAndIngestionNext ==
    \/ UploadDuringIngestion
    \/ S3EventNotification
    \/ FetchDocument
    \/ ExtractDocument
    \/ PersistDocument
    \/ ChainNextStage
    \/ DeleteSource
    \/ NextRecord

SpecUploadsAndIngestion == PipelineInit /\ [][UploadsAndIngestionNext]_vars

\* the notification of an object stored under `key` has not yet been handed
\* to the ingestion handler; the object stored under the key is then the one
\* of the latest upload under it, which no invocation has fetched
Queued(key) == \E i \in 1 .. Len(s3_events) : s3_events[i] = key

\* the accepted uploads carry different job ids
DifferentJobIds(log) ==
    \A i, j \in 1 .. Len(log) :
        (i # j /\ log[i].status = 200 /\ log[j].status = 200)
            => log[i].job_id # log[j].job_id

\* C40: while the accepted uploads carry different job ids, no step of an
\* upload or of the ingestion handler replaces or deletes a stored object
\* whose notification is still waiting to be handed to the ingestion
\* handler, whatever the file names and the interleaving
C40_StoredObjectKeptUntilProcessed ==
    [][DifferentJobIds(u_log') =>
         \A o \in source_bucket : Queued(o.key) => o \in source_bucket']_vars

=============================================================================
